---------------------------- MODULE Spec2Model ----------------------------
(***************************************************************************)
(* A model of the OpSync backend: the invoice upload pipeline              *)
(* (routes/upload: multer -> magic bytes -> AntivirusService.scanFile ->   *)
(* extractText -> parseInvoiceData), the antivirus scanner, the database   *)
(* functions and triggers that classify, mask and set retention of         *)
(* expense rows, and the expense model with the routes that read it.       *)
(*                                                                         *)
(* Buffers are sequences of bytes (0..255); text is a TLA+ string; money   *)
(* is an integer number of cents (DECIMAL(10,2)).                          *)
(***************************************************************************)
EXTENDS Integers, Sequences, FiniteSets, TLC

VARIABLES
    upPc,        \* position of the POST /invoice request
    upFile,      \* req.file as multer delivers it (NoFile: none)
    upStages,    \* the pipeline stages the request has executed, in order
    upText,      \* length of the text extractText returned (-1: none)
    upResponse,  \* the HTTP outcome of the request (NoResponse: none yet)
    scPc,        \* position inside AntivirusService.scanFile
    scArgs,      \* scanFile's arguments (buffer, mimeType)
    scThreats,   \* scanFile's local `threats` array
    scFaulted,   \* a check of the running scan threw
    scResult,    \* the ScanResult scanFile returned (NoResult: none)
    dbSchema,    \* which script defined the database functions and trigger
    dbRows,      \* the expenses table: slot -> row (NoRow: no such row)
    dbResponse,  \* what the last ExpenseModel / dashboard call returned
    dbNow,       \* CURRENT_TIMESTAMP, in days since the database was set up
    clPc,        \* position of a client calling the database functions
    clName,      \* the provider name it passes
    clLevel,     \* what get_provider_sensitivity returned for clName
    clMaskLevel, \* the sensitivity level it passes to the masking function
    clMasked,    \* what the masking function returned
    amRaw,       \* the amount text parseInvoiceData matched (NoAmount: none)
    amResult,    \* what normalizeAmount returned for amRaw
    pdLines,     \* the lines of the text parseInvoiceData looks for a date in
    pdDate,      \* the date it returned (NotParsed: not called yet)
    vnLines,     \* the lines of the text parseInvoiceData looks for a vendor in
    vnVendor,    \* the vendor it returned (NotCalled: not called yet)
    cuText,      \* the text parseInvoiceData looks for an amount and a currency in
    cuResult,    \* the amount and currency it returned (NotCalled: not called yet)
    syPc,        \* position of each run of storeUsageAsExpenses
    syData,      \* the usage records a run has still to store
    syFound,     \* the id the SELECT of a run returned (NULL: no row)
    lgUser,      \* the row of the user in the users table
    lgCalls,     \* each AuthService.login call under way: position, password, the row it read
    lgOutcome,   \* how the last login call of each caller ended
    lgWrong,     \* wrong-password attempts completed since the last successful login
    lgStarted,   \* the number of login calls started
    auRequest,   \* the request authenticateToken handles: its token and what the queries find
    auUser,      \* req.user after the middleware (NoUser: unset)
    auNext,      \* what the middleware passed to next() (NotCalled: not called yet)
    jbJob,       \* AnthropicUsageJob.job: the task it refers to (NoJob: null)
    jbScheduled, \* the cron tasks that are scheduled
    jbStatus,    \* what the last getStatus() returned
    jbCalls,     \* the calls made so far, in order
    rtAudit,     \* the rows of audit_logs the expense routes have written, in order
    rtLast,      \* the last request of an expense route: the table before it, its status
    rtCommitted, \* the number of expense mutations the routes have committed
    rtRequests   \* the number of requests the expense routes have handled

upVars == <<upPc, upFile, upStages, upText, upResponse>>
scVars == <<scPc, scArgs, scThreats, scFaulted, scResult>>
dbVars == <<dbSchema, dbRows, dbResponse, dbNow>>
clVars == <<clPc, clName, clLevel, clMaskLevel, clMasked>>
amVars == <<amRaw, amResult>>
pdVars == <<pdLines, pdDate>>
vnVars == <<vnLines, vnVendor>>
cuVars == <<cuText, cuResult>>
syVars == <<syPc, syData, syFound>>
lgVars == <<lgUser, lgCalls, lgOutcome, lgWrong, lgStarted>>
auVars == <<auRequest, auUser, auNext>>
jbVars == <<jbJob, jbScheduled, jbStatus, jbCalls>>
rtVars == <<rtAudit, rtLast, rtCommitted, rtRequests>>
vars == <<upVars, scVars, dbVars, clVars, amVars, pdVars, vnVars, cuVars, syVars, lgVars, auVars, jbVars, rtVars>>

----------------------------------------------------------------------------
(* Bytes and text                                                          *)

\* The printable ASCII characters in code order: 32 (space) to 95 (_), and
\* 97 (a) to 126 (~); code 96 cannot be written in a TLA+ string.
AsciiFrom32 ==
    " !\"#$%&'()*+,-./0123456789:;<=>?@ABCDEFGHIJKLMNOPQRSTUVWXYZ[\\]^_"
AsciiFrom97 == "abcdefghijklmnopqrstuvwxyz{|}~"

\* The code of a one-character string.
CharCode(c) ==
    IF \E i \in 1..Len(AsciiFrom32) : SubSeq(AsciiFrom32, i, i) = c
    THEN 31 + (CHOOSE i \in 1..Len(AsciiFrom32) : SubSeq(AsciiFrom32, i, i) = c)
    ELSE 96 + (CHOOSE i \in 1..Len(AsciiFrom97) : SubSeq(AsciiFrom97, i, i) = c)

\* Buffer.from(s, 'utf8') for ASCII text: one byte per character.
Utf8Bytes(s) == [i \in 1..Len(s) |-> CharCode(SubSeq(s, i, i))]

\* String.prototype.toLowerCase on one code unit (ASCII letters only change).
LowerCode(b) == IF b >= 65 /\ b <= 90 THEN b + 32 ELSE b

\* A byte that is not ASCII decodes, alone, to U+FFFD (the buffers of this
\* model hold such bytes only in ill-formed positions).
ReplacementChar == 65533

\* buffer.toString('utf8').toLowerCase(), as a sequence of code units.
Utf8Lower(bytes) ==
    [i \in 1..Len(bytes) |->
        IF bytes[i] < 128 THEN LowerCode(bytes[i]) ELSE ReplacementChar]

\* buffer.toString('ascii', 0, n): Node unsets the highest bit of every byte
\* when it decodes 'ascii'.
ToStringAscii(bytes, n) ==
    [i \in 1..(IF Len(bytes) < n THEN Len(bytes) ELSE n) |-> bytes[i] % 128]

\* buffer.toString('hex') as a sequence of hexadecimal digits (0..15).
ToStringHex(bytes) ==
    [i \in 1..(2 * Len(bytes)) |->
        IF i % 2 = 1 THEN bytes[(i + 1) \div 2] \div 16
                     ELSE bytes[i \div 2] % 16]

\* buffer.subarray(0, n) / buffer.slice(0, n)
Subarray(bytes, n) == SubSeq(bytes, 1, IF Len(bytes) < n THEN Len(bytes) ELSE n)

Range(s) == {s[i] : i \in 1..Len(s)}

\* bytes begins with prefix.
StartsWith(bytes, prefix) ==
    Len(bytes) >= Len(prefix) /\ SubSeq(bytes, 1, Len(prefix)) = prefix

\* String.prototype.includes / Buffer.prototype.includes
Includes(hay, needle) ==
    \E i \in 1..(Len(hay) - Len(needle) + 1) :
        SubSeq(hay, i, i + Len(needle) - 1) = needle

----------------------------------------------------------------------------
(* AntivirusService: the pattern tables and RegExp.prototype.test          *)

Whitespace == {9, 10, 11, 12, 13, 32}
LowerLetters == 97..122

\* A regular expression of the tables: its source text, the literal it
\* starts with, and what follows the literal:
\*   "lit"   nothing;               "js"    one character outside [a-z];
\*   "eval"  \s* and "(";           "macro" [a-z]*, \s* and "=".
Pattern(source, literal, tail) ==
    [source |-> source, lit |-> Utf8Bytes(literal), tail |-> tail]

macroPatterns ==
    << Pattern("\\/javascript", "/javascript", "lit"),
       Pattern("\\/js[^a-z]", "/js", "js"),
       Pattern("activexobject", "activexobject", "lit"),
       Pattern("shell\\.application", "shell.application", "lit"),
       Pattern("wscript\\.shell", "wscript.shell", "lit"),
       Pattern("eval\\s*\\(", "eval", "eval"),
       Pattern("document\\.write", "document.write", "lit"),
       Pattern("fromcharcode", "fromcharcode", "lit"),
       Pattern("vbscript", "vbscript", "lit"),
       Pattern("macro[a-z]*\\s*=", "macro", "macro") >>

suspiciousPatterns ==
    << Pattern("powershell", "powershell", "lit"),
       Pattern("cmd\\.exe", "cmd.exe", "lit"),
       Pattern("rundll32", "rundll32", "lit"),
       Pattern("regsvr32", "regsvr32", "lit"),
       Pattern("certutil", "certutil", "lit"),
       Pattern("bitsadmin", "bitsadmin", "lit"),
       Pattern("mshta", "mshta", "lit"),
       Pattern("cscript", "cscript", "lit"),
       Pattern("wscript", "wscript", "lit"),
       Pattern("net\\.webclient", "net.webclient", "lit"),
       Pattern("system\\.diagnostics\\.process", "system.diagnostics.process", "lit"),
       Pattern("base64", "base64", "lit"),
       Pattern("frombase64string", "frombase64string", "lit") >>

\* The first position from `from` on whose character is outside `class`
\* (Len(content) + 1 when there is none): where a greedy class* stops.
SkipClass(content, from, class) ==
    LET stops == {j \in from..(Len(content) + 1) :
                     j = Len(content) + 1 \/ content[j] \notin class}
    IN  CHOOSE j \in stops : \A k \in stops : j <= k

\* The position of the last character of the match of p that starts at
\* position i of content (positions from 1), 0 when p does not match there.
MatchEnd(p, content, i) ==
    LET n == Len(p.lit)
        after == i + n
    IN  IF i + n - 1 > Len(content) \/ SubSeq(content, i, i + n - 1) # p.lit
        THEN 0
        ELSE CASE p.tail = "lit" -> i + n - 1
               [] p.tail = "js" ->
                    IF after <= Len(content) /\ content[after] \notin LowerLetters
                    THEN after ELSE 0
               [] p.tail = "eval" ->
                    LET j == SkipClass(content, after, Whitespace)
                    IN  IF j <= Len(content) /\ content[j] = CharCode("(")
                        THEN j ELSE 0
               [] p.tail = "macro" ->
                    LET j == SkipClass(content, after, LowerLetters)
                        k == SkipClass(content, j, Whitespace)
                    IN  IF k <= Len(content) /\ content[k] = CharCode("=")
                        THEN k ELSE 0

\* pattern.test(content) for a regular expression with the g flag whose
\* lastIndex is `lastIndex`: the search starts at lastIndex; a match leaves
\* lastIndex after the match, a failure resets it to 0.
RegexTest(p, content, lastIndex) ==
    LET starts == {i \in (lastIndex + 1)..Len(content) : MatchEnd(p, content, i) > 0}
    IN  IF starts = {}
        THEN [found |-> FALSE, lastIndex |-> 0]
        ELSE LET i == CHOOSE a \in starts : \A b \in starts : a <= b
             IN  [found |-> TRUE, lastIndex |-> MatchEnd(p, content, i)]

----------------------------------------------------------------------------
(* AntivirusService: the checks                                            *)

\* Size and entropy limits of checkFileSizeAnomalies.
PngSizeLimit == 52428800
JpegSizeLimit == 104857600
EntropySizeLimit == 10485760
EntropyLimitTenths == 75

ExecutableTag == "EXECUTABLE_EMBEDDED: Document contains executable code"
HighRiskTag == "HIGH_RISK: Multiple suspicious patterns detected"
SizeAnomalyTag == "SIZE_ANOMALY: Image file unusually large for type"
SteganographyTag == "STEGANOGRAPHY_RISK: Image has high entropy, may contain hidden data"
ScanErrorTag == "SCAN_ERROR: Unable to complete security scan"
MacroTag(p) == "MACRO_DETECTED: Suspicious macro or script detected (" \o p.source \o ")"
SuspiciousTag(p) ==
    "SUSPICIOUS_PATTERN: Potentially malicious pattern detected (" \o p.source \o ")"

\* The hexadecimal digits of '4d5a' and '7f454c46'.
HexMZ == <<4, 13, 5, 10>>
HexELF == <<7, 15, 4, 5, 4, 12, 4, 6>>

checkFileSignatures(buffer) ==
    LET header == ToStringHex(Subarray(buffer, 16))
    IN  IF Includes(header, HexMZ) \/ Includes(header, HexELF)
        THEN <<ExecutableTag>> ELSE <<>>

isPotentialMacroDocument(mimeType, buffer) ==
    \/ mimeType = "application/pdf"
    \/ Includes(buffer, Utf8Bytes("macro"))
    \/ Includes(buffer, Utf8Bytes("script"))

checkForMacros(buffer) ==
    LET content == Utf8Lower(buffer)
        Hit(p) == RegexTest(p, content, 0).found
        hits == SelectSeq(macroPatterns, Hit)
    IN  [i \in 1..Len(hits) |-> MacroTag(hits[i])]

checkSuspiciousPatterns(buffer) ==
    LET content == Utf8Lower(buffer)
        \* the loop's call of pattern.test, on the fresh regular expressions
        first == [i \in 1..Len(suspiciousPatterns) |->
                     RegexTest(suspiciousPatterns[i], content, 0)]
        \* the filter's call of pattern.test, on the same objects
        second == [i \in 1..Len(suspiciousPatterns) |->
                     RegexTest(suspiciousPatterns[i], content, first[i].lastIndex)]
        Hit(p) == RegexTest(p, content, 0).found
        hits == SelectSeq(suspiciousPatterns, Hit)
        matches == Cardinality({i \in 1..Len(suspiciousPatterns) : second[i].found})
    IN  [i \in 1..Len(hits) |-> SuspiciousTag(hits[i])]
        \o (IF matches >= 3 THEN <<HighRiskTag>> ELSE <<>>)

\* A buffer is held as its leading bytes (`bytes`), its length and the
\* entropy of the whole of it in tenths of a bit per byte (calculateEntropy);
\* the bytes past `bytes` match no pattern of the tables.
checkFileSizeAnomalies(file) ==
    (IF file.mimetype = "image/png" /\ file.length > PngSizeLimit
     THEN <<SizeAnomalyTag>> ELSE <<>>)
    \o (IF file.mimetype = "image/jpeg" /\ file.length > JpegSizeLimit
        THEN <<SizeAnomalyTag>> ELSE <<>>)
    \o (IF SubSeq(file.mimetype, 1, 6) = "image/" /\ file.length > EntropySizeLimit
           /\ file.entropyTenths > EntropyLimitTenths
        THEN <<SteganographyTag>> ELSE <<>>)

NoResult == [completion |-> "none"]

\* A scanner that lets a single finding pass as clean.
ScanCompletedLenient(threats) ==
    [completion |-> "return", isClean |-> (Len(threats) <= 1), threats |-> threats]

\* What scanFile hands back at the end of its try block.
ScanCompleted(threats) ==
    [completion |-> "return", isClean |-> (Len(threats) = 0), threats |-> threats]

\* A catch block that reports what the checks found before the failure.
ScanFailedOpen(threats) ==
    [completion |-> "return", isClean |-> (Len(threats) = 0), threats |-> threats]

\* What scanFile's catch block hands back.
ScanFailed(threats) ==
    [completion |-> "return", isClean |-> FALSE, threats |-> <<ScanErrorTag>>]

CheckStages == {"signatures", "macros", "patterns", "sizes"}

ScanCheckSignatures ==
    /\ scPc = "signatures"
    /\ scThreats' = scThreats \o checkFileSignatures(scArgs.bytes)
    /\ scPc' = "macros"
    /\ UNCHANGED <<scArgs, scFaulted, scResult, upVars, dbVars, clVars, amVars, pdVars, vnVars, cuVars, syVars, lgVars, auVars, jbVars, rtVars>>

ScanCheckMacros ==
    /\ scPc = "macros"
    /\ scThreats' = IF isPotentialMacroDocument(scArgs.mimetype, scArgs.bytes)
                    THEN scThreats \o checkForMacros(scArgs.bytes)
                    ELSE scThreats
    /\ scPc' = "patterns"
    /\ UNCHANGED <<scArgs, scFaulted, scResult, upVars, dbVars, clVars, amVars, pdVars, vnVars, cuVars, syVars, lgVars, auVars, jbVars, rtVars>>

ScanCheckPatterns ==
    /\ scPc = "patterns"
    /\ scThreats' = scThreats \o checkSuspiciousPatterns(scArgs.bytes)
    /\ scPc' = "sizes"
    /\ UNCHANGED <<scArgs, scFaulted, scResult, upVars, dbVars, clVars, amVars, pdVars, vnVars, cuVars, syVars, lgVars, auVars, jbVars, rtVars>>

ScanCheckSizes ==
    /\ scPc = "sizes"
    /\ scThreats' = scThreats \o checkFileSizeAnomalies(scArgs)
    /\ scPc' = "return"
    /\ UNCHANGED <<scArgs, scFaulted, scResult, upVars, dbVars, clVars, amVars, pdVars, vnVars, cuVars, syVars, lgVars, auVars, jbVars, rtVars>>

ScanReturn ==
    /\ scPc = "return"
    /\ scResult' = ScanCompleted(scThreats)
    /\ scPc' = "returned"
    /\ UNCHANGED <<scArgs, scThreats, scFaulted, upVars, dbVars, clVars, amVars, pdVars, vnVars, cuVars, syVars, lgVars, auVars, jbVars, rtVars>>

\* A check throws: control passes to the catch block.
ScanCatch ==
    /\ scPc \in CheckStages
    /\ scFaulted' = TRUE
    /\ scResult' = ScanFailed(scThreats)
    /\ scPc' = "returned"
    /\ UNCHANGED <<scArgs, scThreats, upVars, dbVars, clVars, amVars, pdVars, vnVars, cuVars, syVars, lgVars, auVars, jbVars, rtVars>>

ScanStep ==
    \/ ScanCheckSignatures
    \/ ScanCheckMacros
    \/ ScanCheckPatterns
    \/ ScanCheckSizes
    \/ ScanReturn
    \/ ScanCatch


----------------------------------------------------------------------------
(* The upload route: POST /invoice                                         *)

\* MAX_FILE_SIZE, TEXT_PREVIEW_LIMIT (their defaults) and the shortest text
\* extractText accepts from a PDF.
MaxFileSize == 10485760
TextPreviewLimit == 5000
PdfMinText == 20

\* The largest number of body segments of an uploaded buffer.
MaxSegs == 1

NoFile == [mimetype |-> "none"]
NoResponse == [status |-> 0]

AllowedMimeTypes == {"application/pdf", "image/jpeg", "image/jpg", "image/png"}
MimeTypes == AllowedMimeTypes \cup {"text/plain"}

PdfMagic == Utf8Bytes("%PDF-")
PdfMagicHighBit == <<165, 208, 196, 198, 45>>
JpegMagic == <<255, 216, 255, 224>>
PngMagic == <<137, 80, 78, 71, 13, 10, 26, 10>>
PngMagicShort == <<137, 80, 78, 71, 10, 10, 26, 10>>
PeHeader == <<77, 90, 144, 0>>

\* The leading bytes and the body segments uploaded buffers are made of.
Headers == {PdfMagic, PdfMagicHighBit, JpegMagic, PngMagic, PngMagicShort, PeHeader, <<>>}
Segments ==
    { Utf8Bytes(" Invoice 2024 "), PeHeader, Utf8Bytes(" Invoice 2024 ") \o PeHeader,
      Utf8Bytes(" powershell "), Utf8Bytes(" PowerShell certutil mshta "),
      Utf8Bytes("<script>eval ("), Utf8Bytes(" /JS MACRO=") }

RECURSIVE Bodies(_)
Bodies(n) ==
    IF n = 0 THEN {<<>>}
    ELSE Bodies(n - 1) \cup {b \o s : b \in Bodies(n - 1), s \in Segments}

UploadBuffers == {h \o b : h \in Headers, b \in Bodies(MaxSegs)}

\* req.file: multer's memory storage sets size to the buffer's length.
UploadFiles ==
    { [mimetype |-> m, bytes |-> b, length |-> n, entropyTenths |-> 0] :
        m \in MimeTypes, b \in UploadBuffers,
        n \in {0, MaxFileSize, MaxFileSize + 1} }

\* The file with its real length: a declared length of 0 stands for "no
\* bytes past the leading ones".
WithLength(f) == [f EXCEPT !.length = IF @ = 0 THEN Len(f.bytes) ELSE @]

\* What pdf-parse and Tesseract can do with a buffer: throw, or yield a text
\* of some length (after trim()).
TextLengths == {0, 19, 20, 5000, 5001, 9000}
ExtractionOutcomes == {-1} \cup TextLengths

\* multer's fileFilter and limits.fileSize
MulterAccepts(file) ==
    /\ file.mimetype \in AllowedMimeTypes
    /\ file.length <= MaxFileSize

validateFileType(buffer, mimeType) ==
    LET magic == Subarray(buffer, 10)
    IN  CASE mimeType = "application/pdf" -> ToStringAscii(magic, 4) = Utf8Bytes("%PDF")
          [] mimeType \in {"image/jpeg", "image/jpg"} ->
                Len(magic) >= 3 /\ magic[1] = 255 /\ magic[2] = 216 /\ magic[3] = 255
          [] mimeType = "image/png" -> ToStringHex(Subarray(magic, 8)) = ToStringHex(PngMagic)
          [] OTHER -> FALSE

\* A handler that does not look at the scan's verdict.
ScanPassedAlways(result) == TRUE

\* `if (!scanResult.isClean) throw ...`: the scan lets the request go on.
ScanPassed(result) == result.isClean

\* `if (!text || !text.trim())`: the extracted text is usable.
TextUsable(length) == length > 0

\* extractText: the text it returns, -1 when it throws.
extractText(mimeType, outcome) ==
    IF mimeType = "application/pdf"
    THEN IF outcome < PdfMinText THEN -1 ELSE outcome
    ELSE outcome

\* The whole text as the preview.
textPreviewWhole(length) == length

\* The length of textPreview.
textPreview(length) ==
    IF length > TextPreviewLimit THEN TextPreviewLimit + 1 ELSE length

Respond(status, preview) == [status |-> status, preview |-> preview]

UploadReceive ==
    /\ upPc = "idle"
    /\ \E f \in UploadFiles \cup {NoFile} :
          upFile' = IF f = NoFile THEN f ELSE WithLength(f)
    /\ upPc' = "multer"
    /\ UNCHANGED <<upStages, upText, upResponse, scVars, dbVars, clVars, amVars, pdVars, vnVars, cuVars, syVars, lgVars, auVars, jbVars, rtVars>>

\* upload.single('invoice'): a refused file ends the request in the error
\* handler.
UploadMulter ==
    /\ upPc = "multer"
    /\ IF upFile = NoFile \/ MulterAccepts(upFile)
       THEN upPc' = "handler" /\ UNCHANGED upResponse
       ELSE upPc' = "done" /\ upResponse' = Respond(500, 0)
    /\ UNCHANGED <<upFile, upStages, upText, scVars, dbVars, clVars, amVars, pdVars, vnVars, cuVars, syVars, lgVars, auVars, jbVars, rtVars>>

\* The handler up to its call of AntivirusService.scanFile.
UploadValidate ==
    /\ upPc = "handler"
    /\ IF upFile = NoFile
       THEN upPc' = "done" /\ upResponse' = Respond(400, 0)
                 /\ UNCHANGED <<upStages, scVars>>
       ELSE IF upFile.length > MaxFileSize
       THEN upPc' = "done" /\ upResponse' = Respond(413, 0)
                 /\ UNCHANGED <<upStages, scVars>>
       ELSE IF ~validateFileType(upFile.bytes, upFile.mimetype)
       THEN upPc' = "done" /\ upResponse' = Respond(400, 0)
                 /\ UNCHANGED <<upStages, scVars>>
       ELSE /\ upPc' = "scan"
            /\ upStages' = Append(upStages, "scan")
            /\ scPc' = "signatures"
            /\ scArgs' = upFile
            /\ scThreats' = <<>>
            /\ scFaulted' = FALSE
            /\ scResult' = NoResult
            /\ UNCHANGED upResponse
    /\ UNCHANGED <<upFile, upText, dbVars, clVars, amVars, pdVars, vnVars, cuVars, syVars, lgVars, auVars, jbVars, rtVars>>

\* scanFile has settled: the handler refuses an unclean file.
UploadAfterScan ==
    /\ upPc = "scan"
    /\ scPc = "returned"
    /\ IF scResult.completion = "throw"
       THEN upPc' = "done" /\ upResponse' = Respond(500, 0)
       ELSE IF ~ScanPassed(scResult)
       THEN upPc' = "done" /\ upResponse' = Respond(403, 0)
       ELSE upPc' = "extract" /\ UNCHANGED upResponse
    /\ UNCHANGED <<upFile, upStages, upText, scVars, dbVars, clVars, amVars, pdVars, vnVars, cuVars, syVars, lgVars, auVars, jbVars, rtVars>>

\* `await extractText(...)` inside its try/catch.
UploadExtract ==
    /\ upPc = "extract"
    /\ upStages' = Append(upStages, "extract")
    /\ \E outcome \in ExtractionOutcomes :
          LET text == extractText(upFile.mimetype, outcome)
          IN  IF text < 0
              THEN upPc' = "done" /\ upResponse' = Respond(422, 0) /\ UNCHANGED upText
              ELSE upPc' = "text" /\ upText' = text /\ UNCHANGED upResponse
    /\ UNCHANGED <<upFile, scVars, dbVars, clVars, amVars, pdVars, vnVars, cuVars, syVars, lgVars, auVars, jbVars, rtVars>>

\* The rest of the handler: the empty-text check, parseInvoiceData, res.json.
UploadParse ==
    /\ upPc = "text"
    /\ IF ~TextUsable(upText)
       THEN upResponse' = Respond(422, 0) /\ UNCHANGED upStages
       ELSE /\ upStages' = Append(upStages, "parse")
            /\ upResponse' = Respond(200, textPreview(upText))
    /\ upPc' = "done"
    /\ UNCHANGED <<upFile, upText, scVars, dbVars, clVars, amVars, pdVars, vnVars, cuVars, syVars, lgVars, auVars, jbVars, rtVars>>

----------------------------------------------------------------------------
(* The database functions: classification and masking of provider names    *)

\* The two places that define the functions: the container's init.sql and
\* scripts/createTables.ts.  Both CREATE OR REPLACE get_provider_sensitivity;
\* a database carries the definitions of the script that ran last.
Schemas == {"init.sql", "createTables.ts"}

Levels == {"LOW", "MEDIUM", "HIGH"}

\* The provider names of the model, and SUBSTR(MD5(name), 1, 1) of each, in
\* the same order.
VendorNames == <<
    "Security Co", "SECURITY", "Cloud Security", "Defense",
    "Microsoft Defense", "Military", "government", "Gov Health",
    "Health-Vendor-5", "Google Health", "Medical", "Bank", "bank", "BANK",
    "Bank Leumi", "Amazon Bank", "Finance", "FinanceCloud", "crypto",
    "Crypto Server", "Anthropic", "ANTHROPIC", "OpenAI", "openai hosting",
    "Claude", "claude", "Mossad", "Shin", "bet", "BET", "Bet", "abet",
    "Alphabet", "bet*", "AWS", "aws", "Amazon", "GCP", "gcp", "Google",
    "Azure", "Microsoft", "Hosting", "Server", "Cloud", "cloud",
    "AWS GovCloud", "Google Cloud", "Slack", "Jira", "", "ab", "***",
    "Ban k", "ba*k", "B*nk", "Se*******Co", "Bnak", "Financ", "Secur ity",
    "Security-Vendor-4", "Sensitive-Vendor-4", "Cloud-Provider-A",
    "An******c"
>>

Md5Hex1 == <<
    "1", "2", "3", "4", "7", "7", "3", "5", "5", "3", "0", "e", "b", "7",
    "9", "7", "c", "1", "5", "3", "f", "d", "0", "b", "8", "8", "7", "e",
    "b", "6", "e", "7", "4", "c", "4", "a", "b", "c", "5", "8", "3", "1",
    "5", "9", "c", "a", "6", "5", "3", "8", "d", "1", "8", "0", "a", "6",
    "7", "3", "c", "7", "4", "4", "f", "5"
>>

ProviderNames == Range(VendorNames)

\* SUBSTR(MD5(provider_name), 1, 1)
Md5FirstHex(provider_name) ==
    Md5Hex1[CHOOSE i \in 1..Len(VendorNames) : VendorNames[i] = provider_name]

\* LOWER(provider_name), as character codes, of every name of the model.
LowerCodes == [n \in ProviderNames |-> Utf8Lower(Utf8Bytes(n))]

LOWER(provider_name) == LowerCodes[provider_name]

\* The alternatives of the HIGH and MEDIUM regular expressions.
HighKeywordsInit ==
    {"mossad", "shin", "bet", "security", "defense", "military",
     "government", "health", "medical", "bank", "finance", "crypto"}
HighKeywordsCreateTables ==
    {"security", "defense", "military", "government", "health", "medical",
     "bank", "finance", "crypto", "anthropic", "openai", "claude"}
MediumKeywords ==
    {"aws", "amazon", "gcp", "google", "azure", "microsoft", "hosting",
     "server", "cloud"}

HighKeywords(schema) ==
    IF schema = "init.sql" THEN HighKeywordsInit ELSE HighKeywordsCreateTables

\* The character codes of the keywords.
KeywordCodes ==
    [k \in HighKeywordsInit \cup HighKeywordsCreateTables \cup MediumKeywords
        |-> Utf8Bytes(k)]

\* text ~ '.*(k1|k2|...).*' : some alternative occurs somewhere in the text.
RegexMatchAny(text, keywords) ==
    \E k \in keywords : Includes(text, KeywordCodes[k])

\* LOWER(provider_name) LIKE '%word%'
LikeContains(provider_name, word) ==
    Includes(LOWER(provider_name), KeywordCodes[word])

\* get_provider_sensitivity with the two IF statements in the other order.
get_provider_sensitivity_medium_first(schema, provider_name) ==
    IF RegexMatchAny(LOWER(provider_name), MediumKeywords) THEN "MEDIUM"
    ELSE IF RegexMatchAny(LOWER(provider_name), HighKeywords(schema))
         THEN "HIGH"
         ELSE "LOW"

get_provider_sensitivity(schema, provider_name) ==
    IF RegexMatchAny(LOWER(provider_name), HighKeywords(schema)) THEN "HIGH"
    ELSE IF RegexMatchAny(LOWER(provider_name), MediumKeywords)
         THEN "MEDIUM"
         ELSE "LOW"

RECURSIVE REPEAT(_, _)
REPEAT(c, n) == IF n <= 0 THEN "" ELSE c \o REPEAT(c, n - 1)

LEFT(s, n) == SubSeq(s, 1, IF n < Len(s) THEN n ELSE Len(s))
RIGHT(s, n) == SubSeq(s, IF n < Len(s) THEN Len(s) - n + 1 ELSE 1, Len(s))

\* mask_provider_name that returns a HIGH name as it is.
mask_provider_name_unmasked(provider_name, sensitivity_level) ==
    provider_name

\* createTables.ts: mask_provider_name(provider_name, sensitivity_level)
mask_provider_name(provider_name, sensitivity_level) ==
    CASE sensitivity_level = "HIGH" ->
           IF Len(provider_name) <= 3 THEN "***"
           ELSE LEFT(provider_name, 2)
                  \o REPEAT("*", Len(provider_name) - 3)
                  \o RIGHT(provider_name, 1)
      [] sensitivity_level = "MEDIUM" ->
           IF Len(provider_name) <= 5 THEN provider_name
           ELSE LEFT(provider_name, 3)
                  \o REPEAT("*", Len(provider_name) - 6)
                  \o RIGHT(provider_name, 3)
      [] OTHER -> provider_name

\* init.sql: mask_sensitive_provider(provider_name, sensitivity_level)
mask_sensitive_provider(provider_name, sensitivity_level) ==
    CASE sensitivity_level = "HIGH" ->
           (IF LikeContains(provider_name, "mossad")
                 \/ LikeContains(provider_name, "shin")
              THEN "Security-Vendor-"
            ELSE IF LikeContains(provider_name, "bank")
                      \/ LikeContains(provider_name, "finance")
              THEN "Finance-Vendor-"
            ELSE IF LikeContains(provider_name, "health")
                      \/ LikeContains(provider_name, "medical")
              THEN "Health-Vendor-"
            ELSE "Sensitive-Vendor-") \o Md5FirstHex(provider_name)
      [] sensitivity_level = "MEDIUM" ->
           IF LikeContains(provider_name, "aws")
                \/ LikeContains(provider_name, "amazon")
             THEN "Cloud-Provider-A"
           ELSE IF LikeContains(provider_name, "gcp")
                     \/ LikeContains(provider_name, "google")
             THEN "Cloud-Provider-G"
           ELSE IF LikeContains(provider_name, "azure")
                     \/ LikeContains(provider_name, "microsoft")
             THEN "Cloud-Provider-M"
           ELSE provider_name
      [] OTHER -> provider_name

\* The masking function a schema defines.
MaskOf(schema, provider_name, sensitivity_level) ==
    IF schema = "init.sql"
    THEN mask_sensitive_provider(provider_name, sensitivity_level)
    ELSE mask_provider_name(provider_name, sensitivity_level)

----------------------------------------------------------------------------
(* The expenses table and the row triggers                                 *)

\* Money is in cents.  The amounts the trigger functions compare with:
\* set_expense_defaults keeps the file above 1000; set_expense_retention
\* retains for a year from 5000 and permanently from 20000.
FileKeepAbove == 100000
TemporaryFrom == 500000
PermanentFrom == 2000000

\* SQL NULL in an integer column (SERIAL ids start at 1), in
\* provider_masked_name (a present value v is <<v>>) and in retention_until.
NULL == 0
NullText == <<>>
NullTimestamp == "NULL"

\* retention_until relative to the row's created_at.
OneYear == "created_at + 1 year"
NinetyDays == "created_at + 90 days"

\* The table holds at most two rows; a slot's index is the row's id.
Slots == {1, 2}
NoRow == [id |-> NULL]
Users == {1, 2}

\* The values a column takes when an INSERT does not name it.
ColumnDefaults ==
    [provider_masked_name |-> NullText, source_type |-> "manual",
     sensitivity_level |-> "LOW", file_id |-> NULL,
     file_retention_policy |-> "DELETE", created_by |-> NULL,
     retention_until |-> NullTimestamp, created_at |-> dbNow]

\* INSERT INTO expenses (columns of `given`) VALUES (...): the NEW row the
\* BEFORE trigger receives.
NewRow(id, given) ==
    [c \in {"id"} \cup DOMAIN ColumnDefaults \cup DOMAIN given |->
        IF c = "id" THEN id
        ELSE IF c \in DOMAIN given THEN given[c] ELSE ColumnDefaults[c]]

\* The file policy decided from the amount alone.
FilePolicyByAmount(new) ==
    [new EXCEPT !.file_retention_policy =
        IF new.file_id # NULL
        THEN (IF new.amount > FileKeepAbove THEN "KEEP" ELSE "DELETE")
        ELSE @]

\* The file policy that never takes back a KEEP.
FilePolicySticky(new) ==
    [new EXCEPT !.file_retention_policy =
        IF new.file_id # NULL /\ @ # "KEEP"
        THEN (IF new.sensitivity_level = "HIGH" \/ new.amount > FileKeepAbove
              THEN "KEEP" ELSE "DELETE")
        ELSE @]

\* set_expense_defaults, "Set file retention policy based on sensitivity
\* and amount".
FilePolicy(new) ==
    [new EXCEPT !.file_retention_policy =
        IF new.file_id # NULL
        THEN (IF new.sensitivity_level = "HIGH" \/ new.amount > FileKeepAbove
              THEN "KEEP" ELSE "DELETE")
        ELSE @]

\* createTables.ts: set_expense_defaults(), BEFORE INSERT OR UPDATE.
set_expense_defaults(new) ==
    LET classified ==
            [new EXCEPT !.sensitivity_level =
                IF @ = "LOW"
                THEN get_provider_sensitivity("createTables.ts",
                                              new.provider_name)
                ELSE @]
        masked ==
            [classified EXCEPT !.provider_masked_name =
                IF classified.sensitivity_level = "HIGH"
                THEN <<mask_provider_name(classified.provider_name,
                                          classified.sensitivity_level)>>
                ELSE @]
    IN  FilePolicy(masked)

\* init.sql: set_expense_retention().
set_expense_retention(new) ==
    [new EXCEPT
        !.retention_until =
            IF new.amount >= PermanentFrom \/ new.sensitivity_level = "HIGH"
            THEN NullTimestamp
            ELSE IF new.amount >= TemporaryFrom THEN OneYear
            ELSE NinetyDays,
        !.provider_masked_name =
            IF new.sensitivity_level \in {"MEDIUM", "HIGH"}
            THEN <<mask_sensitive_provider(new.provider_name,
                                           new.sensitivity_level)>>
            ELSE <<new.provider_name>>]

\* The row trigger of the schema, run on the NEW row of every INSERT and
\* UPDATE before it is stored.  createTables.ts attaches set_expense_defaults
\* BEFORE INSERT OR UPDATE; init.sql defines set_expense_retention as a
\* trigger function on NEW, taken here to be attached the same way.
BeforeRowWrite(schema, new) ==
    IF schema = "init.sql" THEN set_expense_retention(new)
    ELSE set_expense_defaults(new)

\* Any INSERT, UPDATE and DELETE on the table, by whatever client: the
\* columns the trigger functions read take every value.
RowNames == {"Anthropic", "Slack"}
RowAmounts == {100000, 499999, 500000, 2000000}
FileIds == {NULL, 1}
\* The first row is written as a manual expense, the second as an API one.
SourceOf == [id \in Slots |-> IF id = 1 THEN "manual" ELSE "api"]

RowInsert(id) ==
    /\ dbRows[id] = NoRow
    /\ \E name \in RowNames, amount \in RowAmounts, level \in Levels,
          file \in FileIds :
          dbRows' = [dbRows EXCEPT ![id] =
              BeforeRowWrite(dbSchema,
                  NewRow(id, [provider_name |-> name, amount |-> amount,
                              sensitivity_level |-> level, file_id |-> file,
                              source_type |-> SourceOf[id]]))]
    /\ UNCHANGED <<dbSchema, dbNow, dbResponse, clVars, amVars, pdVars, vnVars, cuVars, syVars, lgVars, auVars, jbVars, rtVars, upVars, scVars>>

RowUpdate(id) ==
    /\ dbRows[id] # NoRow
    /\ \/ \E name \in RowNames :
            dbRows' = [dbRows EXCEPT ![id] =
                BeforeRowWrite(dbSchema, [@ EXCEPT !.provider_name = name])]
       \/ \E amount \in RowAmounts :
            dbRows' = [dbRows EXCEPT ![id] =
                BeforeRowWrite(dbSchema, [@ EXCEPT !.amount = amount])]
       \/ \E level \in Levels :
            dbRows' = [dbRows EXCEPT ![id] =
                BeforeRowWrite(dbSchema,
                               [@ EXCEPT !.sensitivity_level = level])]
       \/ \E file \in FileIds :
            dbRows' = [dbRows EXCEPT ![id] =
                BeforeRowWrite(dbSchema, [@ EXCEPT !.file_id = file])]
    /\ UNCHANGED <<dbSchema, dbNow, dbResponse, clVars, amVars, pdVars, vnVars, cuVars, syVars, lgVars, auVars, jbVars, rtVars, upVars, scVars>>

RowDelete(id) ==
    /\ dbRows[id] # NoRow
    /\ dbRows' = [dbRows EXCEPT ![id] = NoRow]
    /\ UNCHANGED <<dbSchema, dbNow, dbResponse, clVars, amVars, pdVars, vnVars, cuVars, syVars, lgVars, auVars, jbVars, rtVars, upVars, scVars>>

----------------------------------------------------------------------------
(* ExpenseModel and the dashboard routes                                   *)

NoReply == [op |-> "none"]

\* A WHERE clause without the condition on created_by.
VisibleToAnyone(row, userId) == row # NoRow

\* WHERE (created_by = $userId OR created_by IS NULL)
VisibleTo(row, userId) ==
    row # NoRow /\ (row.created_by = userId \/ row.created_by = NULL)

VisibleRows(userId) == {dbRows[id] : id \in {i \in Slots : VisibleTo(dbRows[i], userId)}}

RECURSIVE SumAmount(_)
SumAmount(rows) ==
    IF rows = {} THEN 0
    ELSE LET r == CHOOSE x \in rows : TRUE
         IN  r.amount + SumAmount(rows \ {r})

\* What POST /api/expenses accepts: a provider name and a positive amount.
CreateNames == {"Anthropic", "Slack", "Bank Leumi"}
CreateAmounts == {50000, 600000}

\* ExpenseModel.create(data, userId)
ExpenseCreate(userId) ==
    \E id \in Slots, name \in CreateNames, amount \in CreateAmounts :
        /\ dbRows[id] = NoRow
        /\ LET sensitivityLevel == get_provider_sensitivity(dbSchema, name)
               row == BeforeRowWrite(dbSchema,
                          NewRow(id, [provider_name |-> name,
                                      amount |-> amount,
                                      source_type |-> "manual",
                                      sensitivity_level |-> sensitivityLevel,
                                      created_by |-> userId]))
           IN  /\ dbRows' = [dbRows EXCEPT ![id] = row]
               /\ dbResponse' = [op |-> "create", userId |-> userId,
                                 items |-> {row}]
        /\ UNCHANGED <<dbSchema, dbNow, clVars, amVars, pdVars, vnVars, cuVars, syVars, lgVars, auVars, jbVars, rtVars, upVars, scVars>>

\* What PUT /api/expenses/:id passes on: the fields of the request that are
\* not undefined.
UpdateRequests ==
    {[provider_name |-> n] : n \in CreateNames}
        \cup {[sensitivity_level |-> l] : l \in Levels}
        \cup {[amount |-> a] : a \in CreateAmounts}
        \cup {[provider_name |-> n, sensitivity_level |-> l] :
                  n \in CreateNames, l \in Levels}

\* UPDATE expenses SET field = value, ... : the NEW row of the statement.
SetFields(row, data) ==
    [c \in DOMAIN row |-> IF c \in DOMAIN data THEN data[c] ELSE row[c]]

\* ExpenseModel.update(id, data, userId)
ExpenseUpdate(id, userId) ==
    \E data \in UpdateRequests :
        /\ IF VisibleTo(dbRows[id], userId)
           THEN LET row == BeforeRowWrite(dbSchema, SetFields(dbRows[id], data))
                IN  /\ dbRows' = [dbRows EXCEPT ![id] = row]
                    /\ dbResponse' = [op |-> "update", userId |-> userId,
                                      items |-> {row}]
           ELSE /\ dbResponse' = [op |-> "update", userId |-> userId,
                                  items |-> {}]
                /\ UNCHANGED dbRows
        /\ UNCHANGED <<dbSchema, dbNow, clVars, amVars, pdVars, vnVars, cuVars, syVars, lgVars, auVars, jbVars, rtVars, upVars, scVars>>

\* ExpenseModel.delete(id, userId)
ExpenseDelete(id, userId) ==
    /\ IF VisibleTo(dbRows[id], userId)
       THEN dbRows' = [dbRows EXCEPT ![id] = NoRow]
       ELSE UNCHANGED dbRows
    /\ dbResponse' = [op |-> "delete", userId |-> userId,
                      items |-> IF VisibleTo(dbRows[id], userId)
                                THEN {dbRows[id]} ELSE {}]
    /\ UNCHANGED <<dbSchema, dbNow, clVars, amVars, pdVars, vnVars, cuVars, syVars, lgVars, auVars, jbVars, rtVars, upVars, scVars>>

\* ExpenseModel.findAll(userId, filters) without filters: both values of
\* showMasked select every column the rows of the model have.
findAll(userId) == VisibleRows(userId)

ExpenseFindAll(userId) ==
    /\ dbResponse' = [op |-> "findAll", userId |-> userId,
                      items |-> findAll(userId)]
    /\ UNCHANGED <<dbSchema, dbNow, dbRows, clVars, amVars, pdVars, vnVars, cuVars, syVars, lgVars, auVars, jbVars, rtVars, upVars, scVars>>

\* ExpenseModel.findById(id, userId)
ExpenseFindById(id, userId) ==
    /\ dbResponse' = [op |-> "findById", userId |-> userId,
                      items |-> IF VisibleTo(dbRows[id], userId)
                                THEN {dbRows[id]} ELSE {}]
    /\ UNCHANGED <<dbSchema, dbNow, dbRows, clVars, amVars, pdVars, vnVars, cuVars, syVars, lgVars, auVars, jbVars, rtVars, upVars, scVars>>

\* ExpenseModel.getStats(userId).topProviders: GROUP BY provider_name, with
\* provider_name as provider and false as is_masked (LIMIT 5 takes all the
\* groups of two rows).
topProviders(userId) ==
    {[name |-> n,
      total |-> SumAmount({r \in VisibleRows(userId) : r.provider_name = n}),
      count |-> Cardinality({r \in VisibleRows(userId) : r.provider_name = n}),
      masked |-> FALSE] :
        n \in {r.provider_name : r \in VisibleRows(userId)}}

ExpenseGetStats(userId) ==
    /\ dbResponse' = [op |-> "getStats", userId |-> userId,
                      items |-> topProviders(userId)]
    /\ UNCHANGED <<dbSchema, dbNow, dbRows, clVars, amVars, pdVars, vnVars, cuVars, syVars, lgVars, auVars, jbVars, rtVars, upVars, scVars>>

\* provider.name.length > 25 ? provider.name.substring(0, 25) + '...' : name
DisplayName(name) ==
    IF Len(name) > 25 THEN SubSeq(name, 1, 25) \o "..." ELSE name

\* GET /api/dashboard/overview: the topProviders of the response.
DashboardOverview(userId) ==
    /\ dbResponse' = [op |-> "overview", userId |-> userId,
                      items |-> {[name |-> DisplayName(p.name),
                                  masked |-> FALSE] :
                                      p \in topProviders(userId)}]
    /\ UNCHANGED <<dbSchema, dbNow, dbRows, clVars, amVars, pdVars, vnVars, cuVars, syVars, lgVars, auVars, jbVars, rtVars, upVars, scVars>>

\* GET /api/dashboard/activity: the recentExpenses of the response (the rows
\* of the model are dated inside the window, and are fewer than five).
DashboardActivity(userId) ==
    /\ dbResponse' = [op |-> "activity", userId |-> userId,
                      items |-> {[id |-> e.id, provider |-> e.provider_name,
                                  amount |-> e.amount, masked |-> FALSE] :
                                      e \in findAll(userId)}]
    /\ UNCHANGED <<dbSchema, dbNow, dbRows, clVars, amVars, pdVars, vnVars, cuVars, syVars, lgVars, auVars, jbVars, rtVars, upVars, scVars>>

\* The days of the model: time passes from one to a later one, up to the
\* last.
MaxDays == 91
NotableDays == {d \in {29, 30, 31, 89, 90, 91, 92} : d <= MaxDays}

\* Time passes; no response is in flight meanwhile.
TimePasses ==
    /\ \E d \in NotableDays : d > dbNow /\ dbNow' = d
    /\ dbResponse' = NoReply
    /\ UNCHANGED <<dbSchema, dbRows, clVars, amVars, pdVars, vnVars, cuVars, syVars, lgVars, auVars, jbVars, rtVars, upVars, scVars>>

----------------------------------------------------------------------------
(* A client of the database functions                                      *)

\* SELECT get_provider_sensitivity($1) as sensitivity
SelectSensitivity ==
    /\ clPc \in {"idle", "masked"}
    /\ \E name \in ProviderNames :
        /\ clName' = name
        /\ clLevel' = get_provider_sensitivity(dbSchema, name)
    /\ clPc' = "classified"
    /\ clMaskLevel' = "LOW"
    /\ clMasked' = ""
    /\ UNCHANGED <<dbVars, upVars, scVars, amVars, pdVars, vnVars, cuVars, syVars, lgVars, auVars, jbVars, rtVars>>

\* SELECT mask_provider_name($1, $2) / mask_sensitive_provider($1, $2) with
\* the level the classification returned, or with any level.
SelectMasked ==
    /\ clPc = "classified"
    /\ \E level \in Levels :
        /\ clMaskLevel' = level
        /\ clMasked' = MaskOf(dbSchema, clName, level)
    /\ clPc' = "masked"
    /\ UNCHANGED <<clName, clLevel, dbVars, upVars, scVars, amVars, pdVars, vnVars, cuVars, syVars, lgVars, auVars, jbVars, rtVars>>

----------------------------------------------------------------------------
(* AnthropicService.storeUsageAsExpenses                                   *)

\* The largest number of usage records of one run.
MaxUsage == 1

\* The callers of storeUsageAsExpenses that can be under way at one time:
\* the cron task of AnthropicUsageJob and a request of a sync route.
Runs == {"cron", "route"}

UsageDates == {1, 2}
\* cost_usd in cents: below and above the 100 dollars of the MEDIUM level
UsageCosts == {5000, 15000}
UsageRecords == [date : UsageDates, cost_usd : UsageCosts]

RECURSIVE UsageData(_)
UsageData(n) ==
    IF n = 0 THEN {<<>>}
    ELSE UsageData(n - 1)
         \cup {Append(u, r) : u \in UsageData(n - 1), r \in UsageRecords}

\* The rows `SELECT id FROM expenses WHERE provider_name = 'Anthropic' AND
\* date = $2 AND source_type = 'api'` returns.
ExistingFor(date) ==
    {id \in Slots :
        /\ dbRows[id] # NoRow
        /\ dbRows[id].provider_name = "Anthropic"
        /\ dbRows[id].source_type = "api"
        /\ "date" \in DOMAIN dbRows[id]
        /\ dbRows[id].date = date}

\* fetchMissingSinceLastSync, syncDateRange or the CSV route hand usage
\* data to storeUsageAsExpenses.
SyncStart(r) ==
    /\ syPc[r] = "idle"
    /\ \E usageData \in UsageData(MaxUsage) \ {<<>>} :
          syData' = [syData EXCEPT ![r] = usageData]
    /\ syPc' = [syPc EXCEPT ![r] = "select"]
    /\ UNCHANGED <<syFound, dbVars, upVars, scVars, clVars, amVars, pdVars, vnVars, cuVars, lgVars, auVars, jbVars, rtVars>>

\* The SELECT for the next usage record; existing.rows[0] is any of the
\* rows found.
SyncSelect(r) ==
    /\ syPc[r] = "select"
    /\ LET existing == ExistingFor(Head(syData[r]).date)
       IN  IF existing = {}
           THEN syFound' = [syFound EXCEPT ![r] = NULL]
           ELSE \E id \in existing : syFound' = [syFound EXCEPT ![r] = id]
    /\ syPc' = [syPc EXCEPT ![r] = "write"]
    /\ UNCHANGED <<syData, dbVars, upVars, scVars, clVars, amVars, pdVars, vnVars, cuVars, lgVars, auVars, jbVars, rtVars>>

\* The UPDATE or INSERT for the usage record, by what the SELECT returned.
\* An INSERT into the full table of the model fails; the catch block of the
\* loop logs the failure and the loop goes on.
SyncWrite(r) ==
    /\ syPc[r] = "write"
    /\ LET usage == Head(syData[r])
           free == {id \in Slots : dbRows[id] = NoRow}
       IN  IF syFound[r] # NULL
           THEN dbRows' =
                    IF dbRows[syFound[r]] = NoRow THEN dbRows
                    ELSE [dbRows EXCEPT ![syFound[r]] =
                             BeforeRowWrite(dbSchema, [@ EXCEPT !.amount = usage.cost_usd])]
           ELSE IF free = {} THEN UNCHANGED dbRows
           ELSE LET id == CHOOSE i \in free : \A j \in free : i <= j
                IN  dbRows' = [dbRows EXCEPT ![id] =
                        BeforeRowWrite(dbSchema,
                            NewRow(id, [provider_name |-> "Anthropic",
                                        amount |-> usage.cost_usd,
                                        date |-> usage.date,
                                        source_type |-> "api",
                                        sensitivity_level |->
                                            IF usage.cost_usd > 10000
                                            THEN "MEDIUM" ELSE "LOW"]))]
    /\ syData' = [syData EXCEPT ![r] = Tail(@)]
    /\ syPc' = [syPc EXCEPT ![r] = IF Len(syData[r]) > 1 THEN "select" ELSE "idle"]
    /\ syFound' = [syFound EXCEPT ![r] = NULL]
    /\ UNCHANGED <<dbSchema, dbResponse, dbNow, upVars, scVars, clVars, amVars, pdVars, vnVars, cuVars, lgVars, auVars, jbVars, rtVars>>

----------------------------------------------------------------------------
(* AuthService.login                                                       *)

\* The largest number of login calls for the user.
MaxLogins == 6

MAX_LOGIN_ATTEMPTS == 5
\* LOCKOUT_DURATION, in minutes
LOCKOUT_DURATION == 15
\* new Date() / Date.now() during the calls, in minutes: the calls are made
\* within one minute
LoginNow == 100

\* The login calls that can be under way at one time.
Callers == {1, 2}

IdleCall == [pc |-> "idle"]
NoOutcome == [result |-> "none"]

\* The call is made; `valid` is what bcrypt.compare will find.
LoginStart(c) ==
    /\ lgCalls[c] = IdleCall
    /\ lgStarted < MaxLogins
    /\ lgStarted' = lgStarted + 1
    /\ \E valid \in BOOLEAN :
          lgCalls' = [lgCalls EXCEPT ![c] =
                         [pc |-> "select", valid |-> valid, afterFive |-> FALSE]]
    /\ UNCHANGED <<lgUser, lgOutcome, lgWrong, dbVars, upVars, scVars, clVars, amVars, pdVars, vnVars, cuVars, syVars, auVars, jbVars, rtVars>>

\* SELECT * FROM users, the lock check, and the steps that write nothing to
\* the row; the call then waits for bcrypt.compare.
LoginSelect(c) ==
    /\ lgCalls[c].pc = "select"
    /\ LET user == lgUser
           afterFive == lgWrong >= MAX_LOGIN_ATTEMPTS
       IN  IF user.account_locked_until # NULL /\ LoginNow < user.account_locked_until
           THEN /\ lgCalls' = [lgCalls EXCEPT ![c] = IdleCall]
                /\ lgOutcome' = [lgOutcome EXCEPT ![c] =
                       [result |-> "Account temporarily locked", afterFive |-> afterFive]]
           ELSE /\ lgCalls' = [lgCalls EXCEPT ![c] =
                       [pc |-> "compared", valid |-> @.valid, afterFive |-> afterFive,
                        user |-> user]]
                /\ UNCHANGED lgOutcome
    /\ UNCHANGED <<lgUser, lgWrong, lgStarted, dbVars, upVars, scVars, clVars, amVars, pdVars, vnVars, cuVars, syVars, auVars, jbVars, rtVars>>

\* bcrypt.compare said no: handleFailedLogin(user) writes the counter it
\* computes from the row the call read.
LoginFailed(c) ==
    /\ lgCalls[c].pc = "compared"
    /\ ~lgCalls[c].valid
    /\ LET newAttempts == lgCalls[c].user.failed_login_attempts + 1
           lockoutUntil == IF newAttempts >= MAX_LOGIN_ATTEMPTS
                           THEN LoginNow + LOCKOUT_DURATION ELSE NULL
       IN  lgUser' = [lgUser EXCEPT !.failed_login_attempts = newAttempts,
                                    !.account_locked_until = lockoutUntil]
    /\ lgOutcome' = [lgOutcome EXCEPT ![c] =
           [result |-> "Invalid credentials", afterFive |-> lgCalls[c].afterFive]]
    /\ lgWrong' = lgWrong + 1
    /\ lgCalls' = [lgCalls EXCEPT ![c] = IdleCall]
    /\ UNCHANGED <<lgStarted, dbVars, upVars, scVars, clVars, amVars, pdVars, vnVars, cuVars, syVars, auVars, jbVars, rtVars>>

\* bcrypt.compare said yes: the is_active check, clearFailedAttempts, and
\* the rest of the call, which leaves the counter and the lock alone.
LoginSucceeded(c) ==
    /\ lgCalls[c].pc = "compared"
    /\ lgCalls[c].valid
    /\ IF ~lgCalls[c].user.is_active
       THEN /\ lgOutcome' = [lgOutcome EXCEPT ![c] =
                   [result |-> "Account deactivated", afterFive |-> lgCalls[c].afterFive]]
            /\ UNCHANGED <<lgUser, lgWrong>>
       ELSE /\ lgUser' = [lgUser EXCEPT !.failed_login_attempts = 0,
                                        !.account_locked_until = NULL]
            /\ lgOutcome' = [lgOutcome EXCEPT ![c] =
                   [result |-> "success", afterFive |-> lgCalls[c].afterFive]]
            /\ lgWrong' = 0
    /\ lgCalls' = [lgCalls EXCEPT ![c] = IdleCall]
    /\ UNCHANGED <<lgStarted, dbVars, upVars, scVars, clVars, amVars, pdVars, vnVars, cuVars, syVars, auVars, jbVars, rtVars>>

----------------------------------------------------------------------------
(* The expense routes: POST /, PUT /:id, DELETE /:id                       *)

MaxRequests == 3

NoRequestYet == [op |-> "none", status |-> 0]

\* A query of the pool either returns or throws; the routes run each query
\* on a client of its own, outside a transaction, so a query that returned
\* is committed.
Failures == {"none", "mutation", "audit"}

\* The amount of a request body: zero is refused.
RouteAmounts == {0, 50000, 600000}

\* The outcome of a request: the table as it was before, the status of the
\* response.
Outcome(op, status) == [op |-> op, status |-> status, before |-> dbRows]

\* AuditLogModel.create({userId, action, resourceType: 'expense', resourceId})
AuditEntry(userId, action, id) ==
    [user_id |-> userId, action |-> action, resource_id |-> id]

\* The statement of the model has been run (and committed); the audit-log
\* entry follows, and the response after it.
RouteFinish(op, okStatus, rows, entry, fails) ==
    /\ dbRows' = rows
    /\ rtCommitted' = rtCommitted + 1
    /\ IF fails = "audit"
       THEN /\ rtAudit' = rtAudit
            /\ rtLast' = Outcome(op, 500)
       ELSE /\ rtAudit' = Append(rtAudit, entry)
            /\ rtLast' = Outcome(op, okStatus)

\* The request ends in an error before any statement has changed a row.
RouteRefuse(op, status) ==
    /\ rtLast' = Outcome(op, status)
    /\ UNCHANGED <<dbRows, rtAudit, rtCommitted>>

\* router.post('/')
RouteCreate(userId) ==
    /\ rtRequests < MaxRequests
    /\ \E id \in Slots : dbRows[id] = NoRow
    /\ rtRequests' = rtRequests + 1
    /\ \E amount \in RouteAmounts, fails \in Failures :
          IF amount <= 0
          THEN RouteRefuse("create", 400)
          ELSE IF fails = "mutation"
          THEN RouteRefuse("create", 500)
          ELSE LET id == CHOOSE i \in Slots :
                             dbRows[i] = NoRow /\ \A j \in Slots : dbRows[j] = NoRow => i <= j
                   row == BeforeRowWrite(dbSchema,
                              NewRow(id, [provider_name |-> "Slack",
                                          amount |-> amount,
                                          source_type |-> "manual",
                                          sensitivity_level |->
                                              get_provider_sensitivity(dbSchema, "Slack"),
                                          created_by |-> userId]))
               IN  RouteFinish("create", 201, [dbRows EXCEPT ![id] = row],
                               AuditEntry(userId, "EXPENSE_CREATE", id), fails)
    /\ UNCHANGED <<dbSchema, dbNow, dbResponse, upVars, scVars, clVars, amVars, pdVars, vnVars, cuVars, syVars, lgVars, auVars, jbVars>>

\* router.put('/:id')
RouteUpdate(id, userId) ==
    /\ rtRequests < MaxRequests
    /\ rtRequests' = rtRequests + 1
    /\ \E amount \in RouteAmounts, fails \in Failures :
          IF amount <= 0
          THEN RouteRefuse("update", 400)
          ELSE IF ~VisibleTo(dbRows[id], userId)
          THEN RouteRefuse("update", 404)
          ELSE IF fails = "mutation"
          THEN RouteRefuse("update", 500)
          ELSE LET row == BeforeRowWrite(dbSchema,
                              SetFields(dbRows[id], [amount |-> amount]))
               IN  RouteFinish("update", 200, [dbRows EXCEPT ![id] = row],
                               AuditEntry(userId, "EXPENSE_UPDATE", id), fails)
    /\ UNCHANGED <<dbSchema, dbNow, dbResponse, upVars, scVars, clVars, amVars, pdVars, vnVars, cuVars, syVars, lgVars, auVars, jbVars>>

\* router.delete('/:id')
RouteDelete(id, userId) ==
    /\ rtRequests < MaxRequests
    /\ rtRequests' = rtRequests + 1
    /\ \E fails \in Failures :
          IF ~VisibleTo(dbRows[id], userId)
          THEN RouteRefuse("delete", 404)
          ELSE IF fails = "mutation"
          THEN RouteRefuse("delete", 500)
          ELSE RouteFinish("delete", 200, [dbRows EXCEPT ![id] = NoRow],
                           AuditEntry(userId, "EXPENSE_DELETE", id), fails)
    /\ UNCHANGED <<dbSchema, dbNow, dbResponse, upVars, scVars, clVars, amVars, pdVars, vnVars, cuVars, syVars, lgVars, auVars, jbVars>>

----------------------------------------------------------------------------
(* The authenticateToken middleware                                        *)

NoRequest == [token |-> "none"]
NoUser == [id |-> NULL]
NextNotCalled == [called |-> FALSE, error |-> 0]

\* A JSON web token: the secret it is signed with, whether it has expired,
\* the userId it carries.
JwtTokens ==
    [kind : {"jwt"}, secret : {"JWT_SECRET", "other"}, expired : BOOLEAN,
     userId : {1, 2}]

\* The bearer token of a request: none, the token of POST /test-login, a
\* token of POST /demo-login, some other text, a JSON web token.
Tokens ==
    {[kind |-> k] : k \in {"absent", "test-token-12345", "demo-token-", "garbage"}}
        \cup JwtTokens

\* A request: its token, whether JWT_SECRET is set, and what the database
\* holds when the middleware asks: whether the user of the token exists
\* and is active, whether that user has a session with expires_at in the
\* future, and whether the UPDATE of the sessions fails.
AuthRequests ==
    [token : Tokens, secretSet : BOOLEAN, userActive : BOOLEAN,
     sessionValid : BOOLEAN, updateFails : BOOLEAN]

\* token.startsWith('demo-token-') || token === 'test-token-12345'
IsDemoToken(token) == token.kind \in {"demo-token-", "test-token-12345"}

\* jwt.verify(token, jwtSecret) returns the payload
JwtVerifies(token) ==
    token.kind = "jwt" /\ token.secret = "JWT_SECRET" /\ ~token.expired

Passed == [called |-> TRUE, error |-> 0]
PassedError(status) == [called |-> TRUE, error |-> status]

UserOf(id) == [id |-> id]

\* authenticateToken(req, res, next)
Authenticate ==
    /\ auNext = NextNotCalled
    /\ \E req \in AuthRequests :
          /\ auRequest' = req
          /\ IF req.token.kind = "absent"
             THEN auUser' = NoUser /\ auNext' = PassedError(401)
             ELSE IF IsDemoToken(req.token)
             THEN auUser' = UserOf(1) /\ auNext' = Passed
             ELSE IF ~req.secretSet
             THEN auUser' = NoUser /\ auNext' = PassedError(500)
             ELSE IF ~JwtVerifies(req.token)
             THEN auUser' = NoUser /\ auNext' = PassedError(401)
             ELSE IF ~req.userActive
             THEN auUser' = NoUser /\ auNext' = PassedError(401)
             ELSE IF ~req.sessionValid
             THEN auUser' = NoUser /\ auNext' = PassedError(401)
             ELSE /\ auUser' = UserOf(req.token.userId)
                  /\ auNext' = IF req.updateFails THEN PassedError(500) ELSE Passed
    /\ UNCHANGED <<dbVars, upVars, scVars, clVars, amVars, pdVars, vnVars, cuVars, syVars, lgVars, jbVars, rtVars>>

----------------------------------------------------------------------------
(* AnthropicUsageJob                                                       *)

MaxCalls == 6

\* private static job: cron.ScheduledTask | null = null
NoJob == 0

\* The task a cron.schedule call creates: the tasks are numbered in the
\* order of their creation.
NewTask == Cardinality({i \in 1..Len(jbCalls) : jbCalls[i] = "start"}) + 1

\* AnthropicUsageJob.start()
JobStart ==
    /\ Len(jbCalls) < MaxCalls
    /\ jbJob' = NewTask
    /\ jbScheduled' = jbScheduled \cup {NewTask}
    /\ jbCalls' = Append(jbCalls, "start")
    /\ UNCHANGED <<jbStatus, dbVars, upVars, scVars, clVars, amVars, pdVars, vnVars, cuVars, syVars, lgVars, auVars, rtVars>>

\* AnthropicUsageJob.stop()
JobStop ==
    /\ Len(jbCalls) < MaxCalls
    /\ IF jbJob # NoJob
       THEN jbScheduled' = jbScheduled \ {jbJob} /\ jbJob' = NoJob
       ELSE UNCHANGED <<jbScheduled, jbJob>>
    /\ jbCalls' = Append(jbCalls, "stop")
    /\ UNCHANGED <<jbStatus, dbVars, upVars, scVars, clVars, amVars, pdVars, vnVars, cuVars, syVars, lgVars, auVars, rtVars>>

\* AnthropicUsageJob.getStatus()
JobGetStatus ==
    /\ Len(jbCalls) < MaxCalls
    /\ jbStatus' = [running |-> jbJob # NoJob]
    /\ jbCalls' = Append(jbCalls, "getStatus")
    /\ UNCHANGED <<jbJob, jbScheduled, dbVars, upVars, scVars, clVars, amVars, pdVars, vnVars, cuVars, syVars, lgVars, auVars, rtVars>>

----------------------------------------------------------------------------
(* parseInvoiceData: the amount pattern and normalizeAmount                *)

\* The largest number of three-digit groups of an amount text.
MaxGroups == 2

NoAmount == "none"

Digits == {"0", "1", "2", "3", "4", "5", "6", "7", "8", "9"}
WhiteSpaceChars == {" ", "\t", "\n", "\r"}

CharAt(s, i) == SubSeq(s, i, i)

\* The texts the amount part of currencyRegex matches,
\*   [0-9]{1,3}(?:[.,][0-9]{3})*(?:[.,][0-9]{2})?
\* with a few digits standing for all and at most n three-digit groups.
RECURSIVE GroupedAmounts(_)
GroupedAmounts(n) ==
    IF n = 0 THEN {"1", "7", "99", "123"}
    ELSE GroupedAmounts(n - 1)
         \cup {a \o sep \o g : a \in GroupedAmounts(n - 1),
                               sep \in {".", ","}, g \in {"234", "000"}}

AmountTexts ==
    GroupedAmounts(MaxGroups)
    \cup {a \o sep \o c : a \in GroupedAmounts(MaxGroups),
                          sep \in {".", ","}, c \in {"56", "00"}}

\* String.prototype.trim
RECURSIVE TrimStart(_)
TrimStart(s) ==
    IF Len(s) > 0 /\ CharAt(s, 1) \in WhiteSpaceChars
    THEN TrimStart(SubSeq(s, 2, Len(s))) ELSE s

RECURSIVE TrimEnd(_)
TrimEnd(s) ==
    IF Len(s) > 0 /\ CharAt(s, Len(s)) \in WhiteSpaceChars
    THEN TrimEnd(SubSeq(s, 1, Len(s) - 1)) ELSE s

Trim(s) == TrimEnd(TrimStart(s))

\* /,[0-9]{2}$/.test(s) and /\.[0-9]{2}$/.test(s), for sep "," and "."
EndsWithTwoDecimals(s, sep) ==
    /\ Len(s) >= 3
    /\ CharAt(s, Len(s) - 2) = sep
    /\ CharAt(s, Len(s) - 1) \in Digits
    /\ CharAt(s, Len(s)) \in Digits

\* s.lastIndexOf(c): the offset (from 0) of the last c, -1 when there is none
LastIndexOf(s, c) ==
    LET at == {i \in 1..Len(s) : CharAt(s, i) = c}
    IN  IF at = {} THEN -1 ELSE (CHOOSE i \in at : \A j \in at : j <= i) - 1

\* s.replace(/c/g, ''), from position `from` on
RECURSIVE RemoveAll(_, _, _)
RemoveAll(s, c, from) ==
    IF from > Len(s) THEN ""
    ELSE (IF CharAt(s, from) = c THEN "" ELSE CharAt(s, from))
         \o RemoveAll(s, c, from + 1)

\* s.replace(/,/g, (m, off) => (off === s.lastIndexOf(',') ? '.' : '')),
\* from position `from` on
RECURSIVE ReplaceCommas(_, _)
ReplaceCommas(s, from) ==
    IF from > Len(s) THEN ""
    ELSE (IF CharAt(s, from) = ","
          THEN IF from - 1 = LastIndexOf(s, ",") THEN "." ELSE ""
          ELSE CharAt(s, from))
         \o ReplaceCommas(s, from + 1)

\* A normalizeAmount without the EU branch.
normalizeAmountUS(raw) == RemoveAll(Trim(raw), ",", 1)

normalizeAmount(raw) ==
    LET s == Trim(raw)
    IN  IF EndsWithTwoDecimals(s, ",") /\ ~EndsWithTwoDecimals(s, ".")
        THEN ReplaceCommas(RemoveAll(s, ".", 1), 1)
        ELSE RemoveAll(s, ",", 1)

\* The amount texts normalizeAmount is given: what the pattern matched, and
\* the same texts with white space around them.
AmountInputs ==
    AmountTexts \cup {" " \o a \o "\t" : a \in {"99,00", "1,234.56", "1.234,56"}}

\* parseInvoiceData, called once for a text: `amount = normalizeAmount(m[2])`
\* (or of m[3]).
ParseAmount ==
    /\ amRaw = NoAmount
    /\ \E raw \in AmountInputs :
          /\ amRaw' = raw
          /\ amResult' = normalizeAmount(raw)
    /\ UNCHANGED <<upVars, scVars, dbVars, clVars, pdVars, vnVars, cuVars, syVars, lgVars, auVars, jbVars, rtVars>>

----------------------------------------------------------------------------
(* parseInvoiceData: the date (findDateCandidates, tryParseDate)           *)

\* The largest number of lines of a text.
MaxLines == 2

NotParsed == "not parsed"
NoDate == "undefined"

Letters ==
    {"A", "B", "C", "D", "E", "F", "G", "H", "I", "J", "K", "L", "M", "N", "O",
     "P", "Q", "R", "S", "T", "U", "V", "W", "X", "Y", "Z",
     "a", "b", "c", "d", "e", "f", "g", "h", "i", "j", "k", "l", "m", "n", "o",
     "p", "q", "r", "s", "t", "u", "v", "w", "x", "y", "z"}

DigitChars == <<"0", "1", "2", "3", "4", "5", "6", "7", "8", "9">>

AllIn(s, class) == \A i \in 1..Len(s) : CharAt(s, i) \in class

\* The number a string of digits denotes.
RECURSIVE ToNumber(_)
ToNumber(s) ==
    IF Len(s) = 0 THEN 0
    ELSE 10 * ToNumber(SubSeq(s, 1, Len(s) - 1))
         + (CHOOSE v \in 0..9 : DigitChars[v + 1] = CharAt(s, Len(s)))

\* n in decimal, padded with zeros to `width` digits.
RECURSIVE Padded(_, _)
Padded(n, width) ==
    IF width = 0 THEN ""
    ELSE Padded(n \div 10, width - 1) \o DigitChars[(n % 10) + 1]

\* The words of a line: its parts between single blanks.
RECURSIVE Words(_)
Words(s) ==
    LET blanks == {i \in 1..Len(s) : CharAt(s, i) = " "}
    IN  IF blanks = {} THEN <<s>>
        ELSE LET i == CHOOSE b \in blanks : \A c \in blanks : b <= c
             IN  <<SubSeq(s, 1, i - 1)>> \o Words(SubSeq(s, i + 1, Len(s)))

\* A text of digits of one of the given lengths.
IsDigits(s, lengths) == Len(s) \in lengths /\ AllIn(s, Digits)

\* nn<sep>nn<sep>nnnn
TwoTwoFour(s, sep) ==
    /\ Len(s) = 10
    /\ IsDigits(SubSeq(s, 1, 2), {2}) /\ CharAt(s, 3) = sep
    /\ IsDigits(SubSeq(s, 4, 5), {2}) /\ CharAt(s, 6) = sep
    /\ IsDigits(SubSeq(s, 7, 10), {4})

\* nnnn-nn-nn
FourTwoTwo(s) ==
    /\ Len(s) = 10
    /\ IsDigits(SubSeq(s, 1, 4), {4}) /\ CharAt(s, 5) = "-"
    /\ IsDigits(SubSeq(s, 6, 7), {2}) /\ CharAt(s, 8) = "-"
    /\ IsDigits(SubSeq(s, 9, 10), {2})

\* "15 January 2024": one or two digits, a word, four digits
DayWordYear(s) ==
    LET w == Words(s)
    IN  /\ Len(w) = 3
        /\ IsDigits(w[1], {1, 2})
        /\ Len(w[2]) >= 3 /\ AllIn(w[2], Letters)
        /\ IsDigits(w[3], {4})

\* "January 15, 2024": a word, one or two digits and a comma, four digits
WordDayYear(s) ==
    LET w == Words(s)
    IN  /\ Len(w) = 3
        /\ Len(w[1]) >= 3 /\ AllIn(w[1], Letters)
        /\ Len(w[2]) \in {2, 3} /\ CharAt(w[2], Len(w[2])) = ","
        /\ IsDigits(SubSeq(w[2], 1, Len(w[2]) - 1), {1, 2})
        /\ IsDigits(w[3], {4})

\* The patterns of findDateCandidates, in their order; a line of a text
\* holds at most one candidate, which is the whole line.
DatePatterns == <<"yyyy-MM-dd", "dd/MM/yyyy", "dd.MM.yyyy", "d LLLL yyyy", "LLLL d, yyyy">>

PatternMatches(pattern, line) ==
    CASE pattern = "yyyy-MM-dd" -> FourTwoTwo(line)
      [] pattern = "dd/MM/yyyy" -> TwoTwoFour(line, "/")
      [] pattern = "dd.MM.yyyy" -> TwoTwoFour(line, ".")
      [] pattern = "d LLLL yyyy" -> DayWordYear(line)
      [] pattern = "LLLL d, yyyy" -> WordDayYear(line)

\* text.match(rx) for one pattern: its matches in the order of the text.
MatchesOf(pattern, lines) ==
    LET Hit(line) == PatternMatches(pattern, line)
    IN  SelectSeq(lines, Hit)

RECURSIVE Collect(_, _)
Collect(lines, k) ==
    IF k > Len(DatePatterns) THEN <<>>
    ELSE MatchesOf(DatePatterns[k], lines) \o Collect(lines, k + 1)

findDateCandidates(lines) == Collect(lines, 1)

\* luxon: the long month names and the lengths of the months
MonthNames ==
    <<"January", "February", "March", "April", "May", "June", "July",
      "August", "September", "October", "November", "December">>

IsLeapYear(y) == y % 4 = 0 /\ (y % 100 # 0 \/ y % 400 = 0)

DaysInMonth(y, m) ==
    CASE m = 2 -> IF IsLeapYear(y) THEN 29 ELSE 28
      [] m \in {4, 6, 9, 11} -> 30
      [] OTHER -> 31

Invalid == [isValid |-> FALSE]

\* A DateTime of the given year, month and day: invalid when they name no
\* calendar day.
DateOf(y, m, d) ==
    IF m \in 1..12 /\ d >= 1 /\ d <= DaysInMonth(y, m)
    THEN [isValid |-> TRUE, year |-> y, month |-> m, day |-> d]
    ELSE Invalid

MonthNumber(name) ==
    IF \E k \in 1..12 : MonthNames[k] = name
    THEN CHOOSE k \in 1..12 : MonthNames[k] = name
    ELSE 0

\* DateTime.fromFormat(s, f)
fromFormat(s, f) ==
    CASE f = "yyyy-MM-dd" ->
            IF FourTwoTwo(s)
            THEN DateOf(ToNumber(SubSeq(s, 1, 4)), ToNumber(SubSeq(s, 6, 7)),
                        ToNumber(SubSeq(s, 9, 10)))
            ELSE Invalid
      [] f \in {"dd/MM/yyyy", "dd.MM.yyyy"} ->
            IF TwoTwoFour(s, CharAt(f, 3))
            THEN DateOf(ToNumber(SubSeq(s, 7, 10)), ToNumber(SubSeq(s, 4, 5)),
                        ToNumber(SubSeq(s, 1, 2)))
            ELSE Invalid
      [] f = "MM/dd/yyyy" ->
            IF TwoTwoFour(s, "/")
            THEN DateOf(ToNumber(SubSeq(s, 7, 10)), ToNumber(SubSeq(s, 1, 2)),
                        ToNumber(SubSeq(s, 4, 5)))
            ELSE Invalid
      [] f = "d LLLL yyyy" ->
            IF DayWordYear(s)
            THEN DateOf(ToNumber(Words(s)[3]), MonthNumber(Words(s)[2]),
                        ToNumber(Words(s)[1]))
            ELSE Invalid
      [] f = "LLLL d, yyyy" ->
            IF WordDayYear(s)
            THEN DateOf(ToNumber(Words(s)[3]), MonthNumber(Words(s)[1]),
                        ToNumber(SubSeq(Words(s)[2], 1, Len(Words(s)[2]) - 1)))
            ELSE Invalid

\* DateTime.fromISO(s): of the shapes a candidate can have, the calendar
\* date nnnn-nn-nn is the one ISO 8601 form.
fromISO(s) == fromFormat(s, "yyyy-MM-dd")

toISODate(dt) ==
    Padded(dt.year, 4) \o "-" \o Padded(dt.month, 2) \o "-" \o Padded(dt.day, 2)

\* A format list that tries the month-first reading of a slash date first.
fmtsMonthFirst ==
    <<"yyyy-MM-dd", "MM/dd/yyyy", "dd/MM/yyyy", "dd.MM.yyyy", "d LLLL yyyy", "LLLL d, yyyy">>

fmts ==
    <<"yyyy-MM-dd", "dd/MM/yyyy", "MM/dd/yyyy", "dd.MM.yyyy", "d LLLL yyyy", "LLLL d, yyyy">>

tryParseDate(s) ==
    LET valid == {k \in 1..Len(fmts) : fromFormat(s, fmts[k]).isValid}
    IN  IF valid # {}
        THEN toISODate(fromFormat(s, fmts[CHOOSE k \in valid : \A j \in valid : k <= j]))
        ELSE IF fromISO(s).isValid THEN toISODate(fromISO(s)) ELSE NoDate

\* The loop of parseInvoiceData over the candidates.
parsedDate(lines) ==
    LET candidates == findDateCandidates(lines)
        parsing == {i \in 1..Len(candidates) : tryParseDate(candidates[i]) # NoDate}
    IN  IF parsing = {} THEN NoDate
        ELSE tryParseDate(candidates[CHOOSE i \in parsing : \A j \in parsing : i <= j])

\* The lines texts are made of.
DateLines ==
    {"2024-01-15", "2024-13-45", "15/01/2024", "01/15/2024", "05/04/2024",
     "29/02/2023", "29/02/2024", "31.12.2023", "31.04.2024",
     "2024-01-16", "15 January 2024", "March 5, 2024", "15 Foo 2024", "Total due"}

RECURSIVE DateTexts(_)
DateTexts(n) ==
    IF n = 0 THEN {<<>>}
    ELSE DateTexts(n - 1)
         \cup {Append(t, l) : t \in DateTexts(n - 1), l \in DateLines}

\* parseInvoiceData, called once for a text: its date.
ParseDate ==
    /\ pdDate = NotParsed
    /\ \E lines \in DateTexts(MaxLines) :
          /\ pdLines' = lines
          /\ pdDate' = parsedDate(lines)
    /\ UNCHANGED <<upVars, scVars, dbVars, clVars, amVars, vnVars, cuVars, syVars, lgVars, auVars, jbVars, rtVars>>

----------------------------------------------------------------------------
(* parseInvoiceData: the vendor                                            *)

\* The largest number of lines of a text searched for a vendor.
MaxVendorLines == 3

NotCalled == [called |-> FALSE]

\* A JavaScript string as its UTF-16 code units; for the ASCII texts used
\* here they are the UTF-8 bytes.
Utf16(str) == Utf8Bytes(str)

\* [A-Za-z֐-׿] and \w
VendorLetters == (65..90) \cup (97..122) \cup (1424..1535)
WordChars == (48..57) \cup (65..90) \cup (97..122) \cup {95}

VendorMinLength == 3
VendorMaxLength == 80

StopWords == <<"invoice", "tax", "total", "amount", "date">>
Labels == <<"from", "supplier", "vendor", "billed by", "issued by">>

\* The label list without "billed by".
LabelsFour == <<"from", "supplier", "vendor", "issued by">>

\* The code units of the words of the three lists.
StopWordCodes == [k \in 1..Len(StopWords) |-> Utf16(StopWords[k])]
LabelCodes == [k \in 1..Len(Labels) |-> Utf16(Labels[k])]
LabelFourCodes == [k \in 1..Len(LabelsFour) |-> Utf16(LabelsFour[k])]

\* The line with every letter A-Z replaced by its lower-case form: what a
\* regular expression with the i flag compares.
IgnoreCase(line) ==
    [i \in 1..Len(line) |-> IF line[i] \in 65..90 THEN line[i] + 32 ELSE line[i]]

\* rawText.replace(/[ \t]+/g, ' '): runs of blanks and tabs become one blank
\* (of a run, the last blank is kept and reads as a blank)
CollapseBlanks(line) ==
    LET Blank(i) == line[i] \in {32, 9}
        Kept(i) == ~(Blank(i) /\ i < Len(line) /\ Blank(i + 1))
        kept == SelectSeq([i \in 1..Len(line) |-> i], Kept)
    IN  [k \in 1..Len(kept) |-> IF Blank(kept[k]) THEN 32 ELSE line[kept[k]]]

\* l.trim()
RECURSIVE TrimLine(_)
TrimLine(line) ==
    IF Len(line) > 0 /\ line[1] \in Whitespace THEN TrimLine(Tail(line))
    ELSE IF Len(line) > 0 /\ line[Len(line)] \in Whitespace
    THEN TrimLine(SubSeq(line, 1, Len(line) - 1))
    ELSE line

\* text.split('\n').map((l) => l.trim()).filter(Boolean), of the text whose
\* lines are rawLines
NormalizedLines(rawLines) ==
    LET NonEmpty(l) == Len(l) > 0
    IN  SelectSeq([i \in 1..Len(rawLines) |-> TrimLine(CollapseBlanks(rawLines[i]))],
                  NonEmpty)

\* /invoice|tax|total|amount|date/i.test(l)
StopWordTest(l) ==
    \E k \in 1..Len(StopWords) : Includes(IgnoreCase(l), StopWordCodes[k])

\* /\b(w)\b/i matches l at position i
WordMatchAt(l, w, i) ==
    /\ i + Len(w) - 1 <= Len(l)
    /\ IgnoreCase(SubSeq(l, i, i + Len(w) - 1)) = w
    /\ i = 1 \/ l[i - 1] \notin WordChars
    /\ i + Len(w) > Len(l) \/ l[i + Len(w)] \notin WordChars

\* /\b(from|supplier|vendor|billed by|issued by)\b/i.test(l)
LabelTest(l) ==
    \E k \in 1..Len(Labels) : \E i \in 1..Len(l) : WordMatchAt(l, LabelCodes[k], i)

\* The same test for the list without "billed by".
LabelTestFour(l) ==
    \E k \in 1..Len(LabelsFour) : \E i \in 1..Len(l) : WordMatchAt(l, LabelFourCodes[k], i)

\* The callback of lines.find
VendorTest(l) ==
    /\ \E i \in 1..Len(l) : l[i] \in VendorLetters
    /\ ~StopWordTest(l)
    /\ Len(l) >= VendorMinLength
    /\ Len(l) <= VendorMaxLength

\* A vendor search that stops after lines.find.
vendorWithoutFallback(rawLines) ==
    LET lines == NormalizedLines(rawLines)
        found == SelectSeq(lines, VendorTest)
    IN  IF Len(found) > 0 THEN <<found[1]>> ELSE <<>>

\* The vendor of parseInvoiceData: <<>> for undefined, <<line>> for a line.
vendor(rawLines) ==
    LET lines == NormalizedLines(rawLines)
        found == SelectSeq(lines, VendorTest)
        labelled == {i \in 1..Len(lines) : LabelTest(lines[i])}
        idx == CHOOSE i \in labelled : \A j \in labelled : i <= j
    IN  IF Len(found) > 0 THEN <<found[1]>>
        ELSE IF labelled # {} /\ idx + 1 <= Len(lines) THEN <<lines[idx + 1]>>
        ELSE <<>>

\* A line of n letters.
LineOfLength(n) == [i \in 1..n |-> 65]

\* The lines texts are made of: company names in Latin and Hebrew letters,
\* keyword rows, label rows, a row without letters, an over-long row, a
\* blank row.
VendorLines ==
    { Utf16(" Acme  Corp "), Utf16("Acme Corp Invoice"), Utf16("Total: $1,234.56"),
      Utf16("Date: 2024-01-15"), Utf16("12345"), <<1513, 1500, 1493, 1501>>,
      Utf16("Invoice From:"), Utf16("Amount billed by"), Utf16("Tax fromage"),
      LineOfLength(VendorMaxLength + 1), Utf16("  ") }

RECURSIVE VendorTexts(_)
VendorTexts(n) ==
    IF n = 0 THEN {<<>>}
    ELSE VendorTexts(n - 1)
         \cup {Append(t, l) : t \in VendorTexts(n - 1), l \in VendorLines}

\* parseInvoiceData, called once for a text: its vendor.
ParseVendor ==
    /\ vnVendor = NotCalled
    /\ \E rawLines \in VendorTexts(MaxVendorLines) :
          /\ vnLines' = rawLines
          /\ vnVendor' = [called |-> TRUE, vendor |-> vendor(rawLines)]
    /\ UNCHANGED <<upVars, scVars, dbVars, clVars, amVars, pdVars, cuVars, syVars, lgVars, auVars, jbVars, rtVars>>

----------------------------------------------------------------------------
(* parseInvoiceData: the amount and the currency (currencyRegex)           *)

\* '$', U+20AC, U+00A3, U+20AA, and U+20AA followed by U+200E
currencySymbols == << <<36>>, <<8364>>, <<163>>, <<8362>>, <<8362, 8206>> >>
currencyCodes == <<"USD", "EUR", "GBP", "ILS", "NIS", "AUD", "CAD">>
CurrencyCodeUnits == [k \in 1..Len(currencyCodes) |-> Utf16(currencyCodes[k])]

DigitCodes == 48..57
SeparatorCodes == {44, 46}

\* The text of a sequence of ASCII code units from 32 to 95.
FromCodes(codes) ==
    LET Char(c) == SubSeq(AsciiFrom32, c - 31, c - 31)
        RECURSIVE Join(_)
        Join(k) == IF k > Len(codes) THEN "" ELSE Char(codes[k]) \o Join(k + 1)
    IN  Join(1)

UpperCode(c) == IF c >= 97 /\ c <= 122 THEN c - 32 ELSE c

\* A way the amount pattern [0-9]{1,3}(?:[.,][0-9]{3})*(?:[.,][0-9]{2})? can
\* match: h leading digits, g three-digit groups, c = 1 with the two-digit
\* group.
AmountShapes(text) ==
    [h : 1..3, g : 0..(Len(text) \div 4), c : 0..1]

ShapeLength(shape) == shape.h + 4 * shape.g + 3 * shape.c

DigitsAt(text, from, n) ==
    /\ from + n - 1 <= Len(text)
    /\ \A k \in from..(from + n - 1) : text[k] \in DigitCodes

\* The pattern matches text at position i in the way `shape`.
ShapeMatchesAt(text, i, shape) ==
    /\ DigitsAt(text, i, shape.h)
    /\ \A k \in 0..(shape.g - 1) :
          /\ i + shape.h + 4 * k <= Len(text)
          /\ text[i + shape.h + 4 * k] \in SeparatorCodes
          /\ DigitsAt(text, i + shape.h + 4 * k + 1, 3)
    /\ shape.c = 1 =>
          /\ i + shape.h + 4 * shape.g <= Len(text)
          /\ text[i + shape.h + 4 * shape.g] \in SeparatorCodes
          /\ DigitsAt(text, i + shape.h + 4 * shape.g + 1, 2)

\* The order in which a backtracking matcher tries the ways: each greedy
\* quantifier takes as much as it can first.
TriedBefore(a, b) ==
    \/ a.h > b.h
    \/ a.h = b.h /\ a.g > b.g
    \/ a.h = b.h /\ a.g = b.g /\ a.c >= b.c

FirstTried(shapes) == CHOOSE a \in shapes : \A b \in shapes : TriedBefore(a, b)

\* The position in currencyCodes of the code that text holds at position p,
\* in any letter case; 0 when it holds none.
CodeAt(text, p) ==
    LET at == {k \in 1..Len(currencyCodes) :
                  /\ p + 2 <= Len(text)
                  /\ [j \in 1..3 |-> UpperCode(text[p + j - 1])] = CurrencyCodeUnits[k]}
    IN  IF at = {} THEN 0 ELSE CHOOSE k \in at : \A j \in at : k <= j

NoMatch == [index |-> 0]

\* The first alternative at position i: a symbol, \s*, an amount.
SymbolAmountAt(text, i) ==
    LET Works(k) ==
            /\ i + Len(currencySymbols[k]) - 1 <= Len(text)
            /\ SubSeq(text, i, i + Len(currencySymbols[k]) - 1) = currencySymbols[k]
            /\ DigitsAt(text, SkipClass(text, i + Len(currencySymbols[k]), Whitespace), 1)
        works == {k \in 1..Len(currencySymbols) : Works(k)}
    IN  IF works = {} THEN NoMatch
        ELSE LET k == CHOOSE a \in works : \A b \in works : a <= b
                 p == SkipClass(text, i + Len(currencySymbols[k]), Whitespace)
                 shape == FirstTried({s \in AmountShapes(text) : ShapeMatchesAt(text, p, s)})
             IN  [index |-> i, m1 |-> <<currencySymbols[k]>>,
                  m2 |-> <<SubSeq(text, p, p + ShapeLength(shape) - 1)>>,
                  m3 |-> <<>>, m4 |-> <<>>]

\* The second alternative at position i: an amount, \s*, a code.
AmountCodeAt(text, i) ==
    LET CodeAfter(s) == SkipClass(text, i + ShapeLength(s), Whitespace)
        shapes == {s \in AmountShapes(text) :
                      /\ ShapeMatchesAt(text, i, s)
                      /\ CodeAt(text, CodeAfter(s)) > 0}
    IN  IF shapes = {} THEN NoMatch
        ELSE LET shape == FirstTried(shapes)
             IN  [index |-> i, m1 |-> <<>>, m2 |-> <<>>,
                  m3 |-> <<SubSeq(text, i, i + ShapeLength(shape) - 1)>>,
                  m4 |-> <<SubSeq(text, CodeAfter(shape), CodeAfter(shape) + 2)>>]

MatchAt(text, i) ==
    IF SymbolAmountAt(text, i) # NoMatch THEN SymbolAmountAt(text, i)
    ELSE AmountCodeAt(text, i)

\* text.match(currencyRegex): the leftmost match.
matchCurrency(text) ==
    LET at == {i \in 1..Len(text) : MatchAt(text, i) # NoMatch}
    IN  IF at = {} THEN NoMatch
        ELSE MatchAt(text, CHOOSE i \in at : \A j \in at : i <= j)

\* A symbolToCode that knows the dollar sign only.
symbolToCodeDollarOnly(symbol) ==
    IF symbol = <<36>> THEN <<"USD">> ELSE <<>>

\* symbolToCode: <<>> for undefined
symbolToCode(symbol) ==
    CASE symbol = <<36>> -> <<"USD">>
      [] symbol = <<8364>> -> <<"EUR">>
      [] symbol = <<163>> -> <<"GBP">>
      [] symbol \in {<<8362>>, <<8362, 8206>>} -> <<"ILS">>
      [] OTHER -> <<>>

normalizeCurrencyCode(code) ==
    LET upper == FromCodes([j \in 1..Len(code) |-> UpperCode(code[j])])
    IN  IF upper = "NIS" THEN "ILS" ELSE upper

\* The amount and the currency of parseInvoiceData: <<>> for undefined.
amountAndCurrency(text) ==
    LET m == matchCurrency(text)
    IN  IF m = NoMatch THEN [amount |-> <<>>, currency |-> <<>>]
        ELSE IF m.m1 # <<>> /\ m.m2 # <<>>
        THEN [amount |-> <<normalizeAmount(FromCodes(m.m2[1]))>>,
              currency |-> symbolToCode(m.m1[1])]
        ELSE IF m.m3 # <<>> /\ m.m4 # <<>>
        THEN [amount |-> <<normalizeAmount(FromCodes(m.m3[1]))>>,
              currency |-> <<normalizeCurrencyCode(m.m4[1])>>]
        ELSE [amount |-> <<>>, currency |-> <<>>]

\* The texts: a symbol or none, blanks or none, digits, blanks or none, a
\* code or a word or nothing.
CurrencyTexts ==
    { sym \o b1 \o Utf16(amt) \o b2 \o Utf16(code) :
        sym \in {<<>>, <<36>>, <<8364>>, <<163>>, <<8362>>, <<8362, 8206>>, <<35>>},
        b1 \in {<<>>, <<32>>},
        amt \in {"7", "1234", "1,234.56", "99,00", "x"},
        b2 \in {<<>>, <<32>>},
        code \in {"", "USD", "usd", "nis", "Eur", "XYZ"} }

\* parseInvoiceData, called once for a text: its amount and currency.
ParseCurrency ==
    /\ cuResult = NotCalled
    /\ \E text \in CurrencyTexts :
          /\ cuText' = text
          /\ cuResult' = [called |-> TRUE] @@ amountAndCurrency(text)
    /\ UNCHANGED <<upVars, scVars, dbVars, clVars, amVars, pdVars, vnVars, syVars, lgVars, auVars, jbVars, rtVars>>

Init ==
    /\ upPc = "idle"
    /\ upFile = NoFile
    /\ upStages = <<>>
    /\ upText = -1
    /\ upResponse = NoResponse
    /\ scPc = "idle"
    /\ scArgs = NoFile
    /\ scThreats = <<>>
    /\ scFaulted = FALSE
    /\ scResult = NoResult
    /\ dbSchema \in Schemas
    /\ dbRows = [id \in Slots |-> NoRow]
    /\ dbResponse = NoReply
    /\ dbNow = 0
    /\ clPc = "idle"
    /\ clName = ""
    /\ clLevel = "LOW"
    /\ clMaskLevel = "LOW"
    /\ clMasked = ""
    /\ amRaw = NoAmount
    /\ amResult = NoAmount
    /\ pdLines = <<>>
    /\ pdDate = NotParsed
    /\ vnLines = <<>>
    /\ vnVendor = NotCalled
    /\ cuText = <<>>
    /\ cuResult = NotCalled
    /\ syPc = [r \in Runs |-> "idle"]
    /\ syData = [r \in Runs |-> <<>>]
    /\ syFound = [r \in Runs |-> NULL]
    /\ lgUser = [failed_login_attempts |-> 0, account_locked_until |-> NULL, is_active |-> TRUE]
    /\ lgCalls = [c \in Callers |-> IdleCall]
    /\ lgOutcome = [c \in Callers |-> NoOutcome]
    /\ lgWrong = 0
    /\ lgStarted = 0
    /\ auRequest = NoRequest
    /\ auUser = NoUser
    /\ auNext = NextNotCalled
    /\ jbJob = NoJob
    /\ jbScheduled = {}
    /\ jbStatus = [running |-> FALSE]
    /\ jbCalls = <<>>
    /\ rtAudit = <<>>
    /\ rtLast = NoRequestYet
    /\ rtCommitted = 0
    /\ rtRequests = 0

NextUpload ==
    \/ UploadReceive
    \/ UploadMulter
    \/ UploadValidate
    \/ UploadAfterScan
    \/ UploadExtract
    \/ UploadParse
    \/ ScanCheckSignatures
    \/ ScanCheckMacros
    \/ ScanCheckPatterns
    \/ ScanCheckSizes
    \/ ScanReturn
    \/ ScanCatch

SpecUpload == Init /\ [][NextUpload]_vars

\* The table under arbitrary writes.
NextRetention ==
    \E id \in Slots :
        \/ RowInsert(id)
        \/ RowUpdate(id)
        \/ RowDelete(id)

SpecRetention == Init /\ [][NextRetention]_vars

\* The table under the application's calls.
NextExpenses ==
    \E userId \in Users :
        \/ ExpenseCreate(userId)
        \/ ExpenseFindAll(userId)
        \/ \E id \in Slots : ExpenseFindById(id, userId)
        \/ ExpenseGetStats(userId)
        \/ DashboardOverview(userId)
        \/ DashboardActivity(userId)

SpecExpenses == Init /\ [][NextExpenses]_vars

\* One expense under the application's writes: it is created, updated and
\* deleted by either user, any number of times.
NextExpenseWrites ==
    \E userId \in Users :
        \/ ExpenseCreate(userId) /\ dbRows'[2] = NoRow
        \/ ExpenseUpdate(1, userId)
        \/ ExpenseDelete(1, userId)

SpecExpenseWrites == Init /\ [][NextExpenseWrites]_vars

\* The rows the ownership of which is followed: expenses of one provider
\* and one amount, without a file.
PlainRows ==
    \A id \in Slots :
        dbRows[id] # NoRow =>
            /\ dbRows[id].provider_name = "Slack"
            /\ dbRows[id].amount \in {50000, 100000}
            /\ dbRows[id].file_id = NULL

\* The rows of two users and a row of no user (the second row, which the
\* usage sync inserts without created_by) under the calls of either user.
NextOwnership ==
    \/ RowInsert(2) /\ PlainRows'
    \/ \E userId \in Users :
          \/ ExpenseCreate(userId) /\ PlainRows'
          \/ ExpenseFindAll(userId)
          \/ \E id \in Slots :
                \/ ExpenseUpdate(id, userId) /\ PlainRows'
                \/ ExpenseDelete(id, userId)
                \/ ExpenseFindById(id, userId)

SpecOwnership == Init /\ [][NextOwnership]_vars

\* One expense read as it ages.
NextAging ==
    \/ TimePasses
    \/ \E userId \in Users :
          \/ ExpenseCreate(userId) /\ dbRows'[2] = NoRow
          \/ ExpenseFindAll(userId)
          \/ ExpenseFindById(1, userId)

SpecAging == Init /\ [][NextAging]_vars

NextAmount == ParseAmount

SpecAmount == Init /\ [][NextAmount]_vars

NextDate == ParseDate

SpecDate == Init /\ [][NextDate]_vars

NextVendor == ParseVendor

SpecVendor == Init /\ [][NextVendor]_vars

NextCurrency == ParseCurrency

SpecCurrency == Init /\ [][NextCurrency]_vars

\* Runs of storeUsageAsExpenses, interleaved at their queries.
NextSync ==
    \E r \in Runs :
        \/ SyncStart(r)
        \/ SyncSelect(r)
        \/ SyncWrite(r)

SpecSync == Init /\ [][NextSync]_vars

\* Login calls for one user, interleaved at their awaits.
NextLogin ==
    \E c \in Callers :
        \/ LoginStart(c)
        \/ LoginSelect(c)
        \/ LoginFailed(c)
        \/ LoginSucceeded(c)

SpecLogin == Init /\ [][NextLogin]_vars

NextAuth == Authenticate

SpecAuth == Init /\ [][NextAuth]_vars

NextJob == JobStart \/ JobStop \/ JobGetStatus

SpecJob == Init /\ [][NextJob]_vars

NextRoutes ==
    \E userId \in Users :
        \/ RouteCreate(userId)
        \/ \E id \in Slots :
              \/ RouteUpdate(id, userId)
              \/ RouteDelete(id, userId)

SpecRoutes == Init /\ [][NextRoutes]_vars

NextClassify ==
    \/ SelectSensitivity
    \/ SelectMasked

SpecClassify == Init /\ [][NextClassify]_vars


----------------------------------------------------------------------------
(* Claims about the upload pipeline and the scanner                        *)

ScanReturned == scPc = "returned" /\ scResult.completion = "return"

\* C1: extraction and parsing run only after scanFile returned isClean =
\* true, parseInvoiceData runs only after an extraction that gave non-empty
\* text, and an unclean scan or a failed or empty extraction ends the
\* request with an error without any later stage.
C1_StagesGated ==
    /\ "extract" \in Range(upStages) => ScanReturned /\ scResult.isClean
    /\ "parse" \in Range(upStages) => "extract" \in Range(upStages) /\ upText > 0
    /\ (ScanReturned /\ ~scResult.isClean) =>
          /\ upPc \in {"scan", "done"}
          /\ upStages = <<"scan">>
          /\ upPc = "done" => upResponse.status = 403
    /\ ("extract" \in Range(upStages) /\ upPc = "done" /\ upText <= 0) =>
          /\ upResponse.status = 422
          /\ "parse" \notin Range(upStages)

\* An unclean scan has ended the request with 403 before any extraction.
C1_Witness ==
    /\ upPc = "done"
    /\ ScanReturned /\ ~scResult.isClean
    /\ upResponse.status = 403

\* The magic numbers of the three accepted types.
MagicMatches(bytes, mimeType) ==
    CASE mimeType = "application/pdf" -> StartsWith(bytes, <<37, 80, 68, 70>>)
      [] mimeType \in {"image/jpeg", "image/jpg"} -> StartsWith(bytes, <<255, 216, 255>>)
      [] mimeType = "image/png" -> StartsWith(bytes, <<137, 80, 78, 71, 13, 10, 26, 10>>)
      [] OTHER -> FALSE

\* C2: scanFile is invoked by the upload pipeline only on a file whose
\* declared type is PDF, JPEG or PNG, whose size is within the maximum and
\* whose leading bytes are the magic number of the declared type.
C2_ScanOnlyValidated ==
    scPc # "idle" =>
        /\ scArgs.mimetype \in AllowedMimeTypes
        /\ scArgs.length <= MaxFileSize
        /\ MagicMatches(scArgs.bytes, scArgs.mimetype)

\* C3: when a check fails inside scanFile, scanFile does not throw and
\* returns isClean = false with a SCAN_ERROR tag; a scan that did not
\* complete is never reported as clean.
C3_ScanFailsClosed ==
    scFaulted =>
        /\ scResult.completion = "return"
        /\ ~scResult.isClean
        /\ ScanErrorTag \in Range(scResult.threats)
        /\ upResponse.status # 200

\* A check threw and scanFile has returned.
C3_Witness == scFaulted /\ scPc = "returned" /\ upPc = "done"

\* C4: every ScanResult has isClean = false exactly when its threat list
\* is not empty, on the normal and on the error path.
C4_UncleanHasTag ==
    scResult.completion = "return" => (scResult.isClean <=> Len(scResult.threats) = 0)

\* A scan that ran to its end and found something.
C4_Witness == ScanReturned /\ ~scFaulted /\ ~scResult.isClean



----------------------------------------------------------------------------
(* Claims about retention                                                  *)

StoredRows == {dbRows[id] : id \in {i \in Slots : dbRows[i] # NoRow}}

\* What the trigger of the schema decided for a stored row: init.sql sets
\* retention_until, createTables.ts sets file_retention_policy (of a row
\* that references a file).
DeleteImmediately(row) ==
    IF dbSchema = "init.sql" THEN row.retention_until = NinetyDays
    ELSE row.file_id # NULL => row.file_retention_policy = "DELETE"

HoldTemporary(row) ==
    IF dbSchema = "init.sql" THEN row.retention_until = OneYear
    ELSE row.file_id # NULL => row.file_retention_policy = "KEEP"

HoldPermanent(row) ==
    /\ row.retention_until = NullTimestamp
    /\ dbSchema = "createTables.ts" /\ row.file_id # NULL
          => row.file_retention_policy = "KEEP"

\* C5: a stored row that is not HIGH is in the lowest tier (file deleted)
\* when its amount is below 5000, is held one year from 5000 and below
\* 20000, and is held permanently from 20000.
C5_RetentionThresholds ==
    \A row \in StoredRows :
        row.sensitivity_level # "HIGH" =>
            IF row.amount < TemporaryFrom THEN DeleteImmediately(row)
            ELSE IF row.amount < PermanentFrom THEN HoldTemporary(row)
            ELSE HoldPermanent(row)

\* C6: a stored HIGH row has no retention horizon, and the file it
\* references is kept, whatever its amount.
C6_HighHeldPermanently ==
    \A row \in StoredRows :
        row.sensitivity_level = "HIGH" => HoldPermanent(row)

C6_Witness ==
    \E row \in StoredRows :
        /\ row.sensitivity_level = "HIGH"
        /\ row.amount = 100000
        /\ row.file_id # NULL
        /\ dbSchema = "createTables.ts"

RetentionOutcome(row) ==
    [retention_until |-> row.retention_until,
     file_retention_policy |-> row.file_retention_policy]

SameInputs(a, b) ==
    a.amount = b.amount /\ a.sensitivity_level = b.sensitivity_level

\* C7, as stated: two stored rows with equal amount and equal sensitivity
\* level have the same retention outcome.
C7_OutcomeFromAmountAndLevel ==
    \A a \in StoredRows, b \in StoredRows :
        SameInputs(a, b) => RetentionOutcome(a) = RetentionOutcome(b)

\* C7, amended: two stored rows that both reference a file and have equal
\* amount and equal sensitivity level have the same retention outcome,
\* whatever their provider names, source types and earlier writes.
C7_OutcomeFromAmountAndLevelWithFile ==
    \A a \in StoredRows, b \in StoredRows :
        SameInputs(a, b) /\ a.file_id # NULL /\ b.file_id # NULL
            => RetentionOutcome(a) = RetentionOutcome(b)

C7_Witness ==
    /\ dbSchema = "createTables.ts"
    /\ dbRows[1] # NoRow /\ dbRows[2] # NoRow
    /\ SameInputs(dbRows[1], dbRows[2])
    /\ dbRows[1].file_id # NULL /\ dbRows[2].file_id # NULL
    /\ dbRows[1].provider_name # dbRows[2].provider_name
    /\ dbRows[1].source_type # dbRows[2].source_type
    /\ dbRows[1].file_retention_policy = "DELETE"

----------------------------------------------------------------------------
(* Claims about what reads expose                                          *)

ReadOps == {"findAll", "findById", "getStats", "overview", "activity"}

\* The provider names a response carries.
ExposedNames(response) ==
    CASE response.op \in {"findAll", "findById"} ->
           UNION {{i.provider_name} \cup Range(i.provider_masked_name) :
                      i \in response.items}
      [] response.op \in {"getStats", "overview"} ->
           {i.name : i \in response.items}
      [] response.op = "activity" ->
           {i.provider : i \in response.items}
      [] OTHER -> {}

\* The rows a response reports on.
ReportedRows(response) ==
    IF response.op = "findById" THEN response.items
    ELSE VisibleRows(response.userId)

\* C8: a read response carries, of a HIGH row it reports, the masked name
\* and not provider_name, and of a LOW row provider_name.
C8_HighNeverExposed ==
    dbResponse.op \in ReadOps =>
        \A row \in ReportedRows(dbResponse) :
            /\ row.sensitivity_level = "HIGH" =>
                  /\ row.provider_name \notin ExposedNames(dbResponse)
                  /\ Range(row.provider_masked_name)
                        \subseteq ExposedNames(dbResponse)
            /\ row.sensitivity_level = "LOW" =>
                  row.provider_name \in ExposedNames(dbResponse)

----------------------------------------------------------------------------
(* Claims about classification and masking                                 *)

\* The character codes of the names, as written.
NameCodes == [n \in ProviderNames |-> Utf8Bytes(n)]

\* name contains keyword, letters compared without regard to case.
ContainsIgnoringCase(name, keyword) ==
    \E i \in 1..(Len(NameCodes[name]) - Len(KeywordCodes[keyword]) + 1) :
        \A j \in 1..Len(KeywordCodes[keyword]) :
            LowerCode(NameCodes[name][i + j - 1]) = KeywordCodes[keyword][j]

HasHighKeyword(name) ==
    \E k \in HighKeywords(dbSchema) : ContainsIgnoringCase(name, k)
HasMediumKeyword(name) ==
    \E k \in MediumKeywords : ContainsIgnoringCase(name, k)

\* C9: the level returned for a name is HIGH when the name contains a HIGH
\* keyword, else MEDIUM when it contains a MEDIUM keyword, else LOW, with
\* letters compared without regard to case.
C9_FirstMatchWins ==
    clPc # "idle" =>
        clLevel = (IF HasHighKeyword(clName) THEN "HIGH"
                   ELSE IF HasMediumKeyword(clName) THEN "MEDIUM"
                   ELSE "LOW")

C9_Witness ==
    /\ clPc = "classified"
    /\ clName = "Google Health"
    /\ clLevel = "HIGH"

\* masked is name with every character but the first two and the last
\* replaced by '*', or '***' when name has at most three characters.
StarMasked(name, masked) ==
    IF Len(name) <= 3 THEN masked = "***"
    ELSE /\ Len(masked) = Len(name)
         /\ \A i \in 1..Len(name) :
               SubSeq(masked, i, i) =
                   IF i <= 2 \/ i = Len(name) THEN SubSeq(name, i, i) ELSE "*"

MaskedAsHigh == clPc = "masked" /\ clMaskLevel = "HIGH"

\* C10, as stated: the HIGH mask of a name that contains a HIGH keyword
\* differs from the name and is its star mask.
C10_HighNameStarMasked ==
    MaskedAsHigh /\ HasHighKeyword(clName) =>
        clMasked # clName /\ StarMasked(clName, clMasked)

HexDigits ==
    {"0", "1", "2", "3", "4", "5", "6", "7", "8", "9",
     "a", "b", "c", "d", "e", "f"}
CategoryLabels ==
    {"Security-Vendor-", "Finance-Vendor-", "Health-Vendor-",
     "Sensitive-Vendor-"}

\* C10, amended: mask_provider_name gives the star mask of a name masked as
\* HIGH, and it differs from a name that contains a HIGH keyword;
\* mask_sensitive_provider gives a category label and one hexadecimal
\* digit.
C10_HighNameMaskedBySchema ==
    MaskedAsHigh =>
        IF dbSchema = "createTables.ts"
        THEN /\ StarMasked(clName, clMasked)
             /\ HasHighKeyword(clName) => clMasked # clName
        ELSE \E label \in CategoryLabels, digit \in HexDigits :
                 clMasked = label \o digit

C10_Witness ==
    /\ MaskedAsHigh
    /\ dbSchema = "createTables.ts"
    /\ clLevel = "HIGH"
    /\ clName = "Bank Leumi"
    /\ clMasked = "Ba*******i"

----------------------------------------------------------------------------
(* Claims about the stored masked name                                     *)

\* C11: every stored row whose sensitivity level is LOW has
\* provider_masked_name equal to provider_name.
C11_LowUnmasked ==
    \A row \in StoredRows :
        row.sensitivity_level = "LOW" =>
            row.provider_masked_name = <<row.provider_name>>

\* C12: provider_name holds a name a caller supplied, and the stored masked
\* name of a row that is not LOW is the mask of its provider_name at its
\* sensitivity level.
C12_MaskOfCurrentName ==
    \A row \in StoredRows :
        /\ row.provider_name \in CreateNames
        /\ row.sensitivity_level # "LOW" =>
              row.provider_masked_name =
                  <<MaskOf(dbSchema, row.provider_name,
                           row.sensitivity_level)>>

----------------------------------------------------------------------------
(* Claims about progressive data reduction                                 *)

AllColumns == {"id"} \cup DOMAIN ColumnDefaults \cup {"provider_name", "amount"}
EssentialColumns == {"id", "provider_name", "provider_masked_name", "amount"}
ReducedColumns == {"content_hash", "amount", "provider_masked_name"}

\* C13: a row read before it is 30 days old is returned with all its
\* columns, a row 30 to 90 days old with essential columns only, an older
\* row with the content hash, the amount and the masked provider only.
C13_ReducedAtRead ==
    dbResponse.op \in {"findAll", "findById"} =>
        \A item \in dbResponse.items :
            LET age == dbNow - item.created_at
            IN  IF age < 30 THEN DOMAIN item = AllColumns
                ELSE IF age <= 90 THEN DOMAIN item \subseteq EssentialColumns
                ELSE DOMAIN item \subseteq ReducedColumns

----------------------------------------------------------------------------
(* Further claims about the upload pipeline and the scanner                *)

\* C14, as stated: the text preview of a response is not longer than the
\* preview limit.
C14_PreviewWithinLimit ==
    upResponse.status = 200 => upResponse.preview <= TextPreviewLimit

\* C14, amended: a text within the limit is returned whole; a longer one is
\* cut to the limit and one character is appended, so that the preview is
\* one character longer than the limit.
C14_PreviewWithinLimitPlusOne ==
    upResponse.status = 200 =>
        IF upText <= TextPreviewLimit THEN upResponse.preview = upText
        ELSE upResponse.preview = TextPreviewLimit + 1

C14_Witness ==
    /\ upResponse.status = 200
    /\ upText = 9000
    /\ upResponse.preview = TextPreviewLimit + 1

\* C15: scanFile on a buffer that begins with "%PDF" and holds the bytes
\* 4D 5A 90 00 at some later offset returns isClean = false with the
\* EXECUTABLE_EMBEDDED tag.
PdfWithPeHeader(buffer) ==
    /\ StartsWith(buffer, Utf8Bytes("%PDF"))
    /\ Includes(SubSeq(buffer, 5, Len(buffer)), PeHeader)

C15_EmbeddedExecutableFound ==
    (ScanReturned /\ ~scFaulted /\ PdfWithPeHeader(scArgs.bytes)) =>
        /\ ~scResult.isClean
        /\ ExecutableTag \in Range(scResult.threats)

\* The pattern check of the running scan has been made.
PatternsChecked ==
    \/ scPc \in {"sizes", "return"}
    \/ ScanReturned /\ ~scFaulted

\* How many times tag occurs in threats.
Occurrences(threats, tag) == Cardinality({i \in 1..Len(threats) : threats[i] = tag})

\* The entries of the suspicious-pattern table (all of them literals) that
\* occur in the lower-cased content of buffer.
MatchingEntries(buffer) ==
    {i \in 1..Len(suspiciousPatterns) :
        Includes(Utf8Lower(buffer), suspiciousPatterns[i].lit)}

\* C17: the threat list of checkSuspiciousPatterns holds one
\* SUSPICIOUS_PATTERN tag per matching entry of the table, and exactly one
\* HIGH_RISK tag when at least 3 entries match, none when fewer do.
C17_HighRiskFromThreeEntries ==
    PatternsChecked =>
        LET entries == MatchingEntries(scArgs.bytes)
        IN  /\ \A i \in 1..Len(suspiciousPatterns) :
                  Occurrences(scThreats, SuspiciousTag(suspiciousPatterns[i]))
                      = IF i \in entries THEN 1 ELSE 0
            /\ Occurrences(scThreats, HighRiskTag)
                   = IF Cardinality(entries) >= 3 THEN 1 ELSE 0

\* The macro check of the running scan has been passed.
MacrosChecked ==
    \/ scPc \in {"patterns", "sizes", "return"}
    \/ ScanReturned /\ ~scFaulted

\* The entries of the script-indicator table that match the lower-cased
\* content of buffer.
MatchingMacroEntries(buffer) ==
    {i \in 1..Len(macroPatterns) :
        \E at \in 1..Len(buffer) : MatchEnd(macroPatterns[i], Utf8Lower(buffer), at) > 0}

\* Whether checkForMacros is to run according to C18: the type is
\* application/pdf, or the bytes hold "macro" or "script" in any letter case.
MacroCheckDue(mimeType, buffer) ==
    \/ mimeType = "application/pdf"
    \/ Includes(Utf8Lower(buffer), Utf8Bytes("macro"))
    \/ Includes(Utf8Lower(buffer), Utf8Bytes("script"))

\* C18: checkForMacros runs exactly when the declared type is
\* application/pdf or the bytes hold "macro" or "script" in any letter case,
\* and then every matching entry of the script-indicator table yields a
\* MACRO_DETECTED tag.
C18_MacroCheckAnyCase ==
    MacrosChecked =>
        \A i \in 1..Len(macroPatterns) :
            Occurrences(scThreats, MacroTag(macroPatterns[i]))
                = IF /\ MacroCheckDue(scArgs.mimetype, scArgs.bytes)
                     /\ i \in MatchingMacroEntries(scArgs.bytes)
                  THEN 1 ELSE 0

IsPrefix(s, t) == Len(s) <= Len(t) /\ SubSeq(t, 1, Len(s)) = s

\* C19: within one scanFile call the threat list only grows at its end, and
\* the ScanResult that scanFile returns holds every tag the checks
\* appended, in order and with duplicates, also when a later check failed.
C19_ThreatsAppendOnly ==
    /\ scPc \in CheckStages \cup {"return"} => scResult = NoResult
    /\ scPc = "returned" => IsPrefix(scThreats, scResult.threats)

----------------------------------------------------------------------------
(* Claims about normalizeAmount                                            *)

\* The characters of s outside `drop`, in order.
RECURSIVE Without(_, _)
Without(s, drop) ==
    IF Len(s) = 0 THEN ""
    ELSE (IF CharAt(s, 1) \in drop THEN "" ELSE CharAt(s, 1))
         \o Without(SubSeq(s, 2, Len(s)), drop)

\* The text with "." and "," exchanged.
RECURSIVE Mirror(_)
Mirror(s) ==
    IF Len(s) = 0 THEN ""
    ELSE (CASE CharAt(s, 1) = "." -> ","
            [] CharAt(s, 1) = "," -> "."
            [] OTHER -> CharAt(s, 1))
         \o Mirror(SubSeq(s, 2, Len(s)))

Amount == Trim(amRaw)

EuStyle(s) == EndsWithTwoDecimals(s, ",") /\ ~EndsWithTwoDecimals(s, ".")

\* A US-grouped amount with cents: commas between the groups, a dot before
\* the last two digits.
UsGroupedWithCents(s) ==
    /\ EndsWithTwoDecimals(s, ".")
    /\ Without(SubSeq(s, 1, Len(s) - 3), {"."}) = SubSeq(s, 1, Len(s) - 3)

\* C16: normalizeAmount gives "1234.56" for "1,234.56" and for "1.234,56"
\* and "99.00" for "99,00"; an amount that ends in a comma and two digits is
\* read with the comma as decimal point and the separators before it
\* dropped, every other amount with its commas dropped; a US-grouped amount
\* with cents and its EU-grouped mirror image give the same result.
C16_AmountStyles ==
    amRaw # NoAmount =>
        /\ Amount = "1,234.56" => amResult = "1234.56"
        /\ Amount = "1.234,56" => amResult = "1234.56"
        /\ Amount = "99,00" => amResult = "99.00"
        /\ IF EuStyle(Amount)
           THEN amResult = Without(SubSeq(Amount, 1, Len(Amount) - 3), {".", ","})
                           \o "." \o SubSeq(Amount, Len(Amount) - 1, Len(Amount))
           ELSE amResult = Without(Amount, {","})
        /\ UsGroupedWithCents(Amount) => normalizeAmount(Mirror(Amount)) = amResult

C16_Witness ==
    /\ amRaw = "1.234,56"
    /\ amResult = "1234.56"

\* C20: for every text the amount pattern matches, normalizeAmount returns
\* digits with at most one ".", and no ",".
C20_DecimalString ==
    amRaw \in AmountTexts =>
        /\ \A i \in 1..Len(amResult) : CharAt(amResult, i) \in Digits \cup {"."}
        /\ Cardinality({i \in 1..Len(amResult) : CharAt(amResult, i) = "."}) <= 1

----------------------------------------------------------------------------
(* Claims about the date, the vendor and the currency of parseInvoiceData  *)

\* The position in DatePatterns of the pattern a line matches, 0 when it
\* matches none.
PatternOf(line) ==
    IF \E k \in 1..Len(DatePatterns) : PatternMatches(DatePatterns[k], line)
    THEN CHOOSE k \in 1..Len(DatePatterns) : PatternMatches(DatePatterns[k], line)
    ELSE 0

\* The calendar day a candidate denotes: a slash date a/b/yyyy day-first
\* when that is a day of the calendar, month-first otherwise.
ReadsAs(line) ==
    LET w == Words(line)
    IN  CASE PatternOf(line) = 1 ->
                DateOf(ToNumber(SubSeq(line, 1, 4)), ToNumber(SubSeq(line, 6, 7)),
                       ToNumber(SubSeq(line, 9, 10)))
          [] PatternOf(line) = 2 ->
                LET a == ToNumber(SubSeq(line, 1, 2))
                    b == ToNumber(SubSeq(line, 4, 5))
                    y == ToNumber(SubSeq(line, 7, 10))
                IN  IF DateOf(y, b, a).isValid THEN DateOf(y, b, a) ELSE DateOf(y, a, b)
          [] PatternOf(line) = 3 ->
                DateOf(ToNumber(SubSeq(line, 7, 10)), ToNumber(SubSeq(line, 4, 5)),
                       ToNumber(SubSeq(line, 1, 2)))
          [] PatternOf(line) = 4 ->
                DateOf(ToNumber(w[3]), MonthNumber(w[2]), ToNumber(w[1]))
          [] PatternOf(line) = 5 ->
                DateOf(ToNumber(w[3]), MonthNumber(w[1]),
                       ToNumber(SubSeq(w[2], 1, Len(w[2]) - 1)))
          [] OTHER -> Invalid

\* Line i is collected before line j: its pattern comes earlier in the
\* list, or it is the same one and the line comes earlier in the text.
CollectedBefore(lines, i, j) ==
    \/ PatternOf(lines[i]) < PatternOf(lines[j])
    \/ PatternOf(lines[i]) = PatternOf(lines[j]) /\ i <= j

\* C21: the date is the ISO form of the first candidate, in collection
\* order, that denotes a calendar day under the format list, a slash date
\* being read day-first whenever that is possible; it is absent when no
\* candidate does.
C21_FirstParsingCandidate ==
    pdDate # NotParsed =>
        LET parsing == {i \in 1..Len(pdLines) : ReadsAs(pdLines[i]).isValid}
        IN  IF parsing = {} THEN pdDate = NoDate
            ELSE \E i \in parsing :
                    /\ \A j \in parsing : CollectedBefore(pdLines, i, j)
                    /\ pdDate = toISODate(ReadsAs(pdLines[i]))

C21_Witness ==
    /\ pdLines = <<"29/02/2023", "05/04/2024">>
    /\ pdDate = "2024-04-05"

\* The reading of C22: a line qualifies when it holds a Latin or Hebrew
\* letter, holds none of the stoplist words and is 3 to 80 characters long.
Qualifies(l) ==
    /\ Range(l) \cap VendorLetters # {}
    /\ \A k \in 1..Len(StopWords) : ~Includes(IgnoreCase(l), StopWordCodes[k])
    /\ Len(l) \in VendorMinLength..VendorMaxLength

\* The vendor C22 describes, for a test that tells the label lines.
VendorByRule(lines, IsLabel(_)) ==
    LET qualifying == {i \in 1..Len(lines) : Qualifies(lines[i])}
        labelled == {i \in 1..Len(lines) : IsLabel(lines[i])}
    IN  IF qualifying # {}
        THEN <<lines[CHOOSE i \in qualifying : \A j \in qualifying : i <= j]>>
        ELSE IF labelled # {}
        THEN LET idx == CHOOSE i \in labelled : \A j \in labelled : i <= j
             IN  IF idx < Len(lines) THEN <<lines[idx + 1]>> ELSE <<>>
        ELSE <<>>

\* C22, as stated: the vendor is the first qualifying line; when there is
\* none, the line after the first from / supplier / vendor / issued-by
\* label line; absent when neither exists.
C22_VendorRule ==
    vnVendor # NotCalled =>
        vnVendor.vendor = VendorByRule(NormalizedLines(vnLines), LabelTestFour)

\* C22, amended: the label lines are those with from, supplier, vendor,
\* billed by or issued by.
C22_VendorRuleBilledBy ==
    vnVendor # NotCalled =>
        vnVendor.vendor = VendorByRule(NormalizedLines(vnLines), LabelTest)

C22_Witness ==
    /\ vnLines = <<Utf16("Acme Corp Invoice"), Utf16("Invoice From:"), Utf16("12345")>>
    /\ vnVendor.called
    /\ vnVendor.vendor = <<Utf16("12345")>>

\* The code C30 gives for a symbol, by the symbol's first code unit.
CodeOfSymbol(symbol) ==
    CASE symbol[1] = 36 -> "USD"
      [] symbol[1] = 8364 -> "EUR"
      [] symbol[1] = 163 -> "GBP"
      [] symbol[1] = 8362 -> "ILS"

\* The upper-case form of a matched code, NIS replaced by ILS.
CodeOfCode(code) ==
    LET upper == CHOOSE k \in 1..Len(currencyCodes) :
                     CurrencyCodeUnits[k] = [j \in 1..3 |-> UpperCode(code[j])]
    IN  IF currencyCodes[upper] = "NIS" THEN "ILS" ELSE currencyCodes[upper]

\* C30: amount and currency are both present or both absent; when present
\* the currency is the code of the matched symbol, or the upper-cased
\* matched code with NIS replaced by ILS.
C30_AmountWithCurrency ==
    cuResult # NotCalled =>
        LET m == matchCurrency(cuText)
        IN  /\ cuResult.amount = <<>> <=> cuResult.currency = <<>>
            /\ cuResult.amount = <<>> <=> m = NoMatch
            /\ m # NoMatch =>
                  cuResult.currency =
                      IF m.m1 # <<>> THEN <<CodeOfSymbol(m.m1[1])>>
                      ELSE <<CodeOfCode(m.m4[1])>>

C30_Witness ==
    /\ cuText = <<8362, 8206>> \o Utf16("99,00")
    /\ cuResult.called
    /\ cuResult.currency = <<"ILS">>
    /\ cuResult.amount = <<"99.00">>

----------------------------------------------------------------------------
(* Claims about the stored sensitivity level and the usage sync            *)

\* C23: every stored expense whose provider_name contains a HIGH keyword
\* has sensitivity_level HIGH.
C23_HighKeywordStoredHigh ==
    \A row \in StoredRows :
        HasHighKeyword(row.provider_name) => row.sensitivity_level = "HIGH"

\* The rows the usage sync stores.
UsageRows ==
    {row \in StoredRows : row.provider_name = "Anthropic" /\ row.source_type = "api"}

\* C24: the table holds at most one row with provider_name 'Anthropic' and
\* source_type 'api' per date.
C24_OneUsageRowPerDate ==
    \A a \in UsageRows : \A b \in UsageRows : a.date = b.date => a.id = b.id

----------------------------------------------------------------------------
(* Claims about login and authentication                                   *)

\* C25: once 5 wrong-password attempts have completed with no successful
\* login in between, account_locked_until lies in the future, and every
\* login made from then on is rejected with 'Account temporarily locked'.
C25_LockedAfterFive ==
    /\ lgWrong >= MAX_LOGIN_ATTEMPTS =>
          /\ lgUser.account_locked_until # NULL
          /\ lgUser.account_locked_until > LoginNow
    /\ \A c \in Callers :
          (lgOutcome[c] # NoOutcome /\ lgOutcome[c].afterFive) =>
              lgOutcome[c].result = "Account temporarily locked"

\* The request carries a token that verifies under JWT_SECRET, of an active
\* user who has a session that has not expired.
Authentic(req) ==
    /\ req.token.kind = "jwt"
    /\ req.secretSet /\ req.token.secret = "JWT_SECRET" /\ ~req.token.expired
    /\ req.userActive
    /\ req.sessionValid

\* C26: req.user is set and next() is called without error only for an
\* authentic request; every other request is passed on with an error and
\* req.user unset.
C26_OnlyAuthenticPass ==
    auNext # NextNotCalled =>
        /\ (auUser # NoUser /\ auNext.error = 0) => Authentic(auRequest)
        /\ ~Authentic(auRequest) => (auNext.error # 0 /\ auUser = NoUser)

----------------------------------------------------------------------------
(* Claims about the usage job                                              *)

LastCall == IF jbCalls = <<>> THEN "none" ELSE jbCalls[Len(jbCalls)]

\* C29: after any sequence of start() and stop() calls, getStatus() reports
\* running exactly when some task a start() created is still scheduled,
\* and when stop() has returned no task is scheduled.
C29_RunningIffScheduled ==
    /\ LastCall = "getStatus" => (jbStatus.running <=> jbScheduled # {})
    /\ LastCall = "stop" => jbScheduled = {}

----------------------------------------------------------------------------
(* Claims about the owner of an expense                                    *)

\* The row belongs to a user other than u.
OfAnotherUser(row, u) == row # NoRow /\ row.created_by \in Users \ {u}

\* C27: update and delete called for user u leave every row of another
\* user as it is, and findById and findAll called for u return no row of
\* another user.
C27_OtherUsersRowsUntouched ==
    [][\A u \in Users :
          /\ (dbResponse'.op \in {"update", "delete"} /\ dbResponse'.userId = u) =>
                \A id \in Slots :
                    OfAnotherUser(dbRows[id], u) => dbRows'[id] = dbRows[id]
          /\ (dbResponse'.op \in {"findAll", "findById"} /\ dbResponse'.userId = u) =>
                \A row \in dbResponse'.items : ~OfAnotherUser(row, u)]_vars

\* User 1 has asked for an update while both rows belonged to user 2.
C27_Witness ==
    /\ \A id \in Slots : OfAnotherUser(dbRows[id], 1)
    /\ dbResponse.op = "update"
    /\ dbResponse.userId = 1
    /\ dbResponse.items = {}

----------------------------------------------------------------------------
(* Claims about the expense routes and the audit log                       *)

\* C28: a request of the create, update or delete route that ends in an
\* error leaves the expenses as they were, and every committed mutation
\* has exactly one audit-log entry.
C28_MutationAndAuditAtomic ==
    /\ rtLast.status >= 400 => dbRows = rtLast.before
    /\ rtCommitted = Len(rtAudit)

====
